---- MODULE Spec2Model ----
(***************************************************************************)
(* Well-formedness checking of declarations (rustc_typeck wfcheck.rs).     *)
(*                                                                         *)
(* SpecGat models check_gat_where_clauses: the fixpoint over a trait's     *)
(* associated items that infers the outlives bounds a generic associated   *)
(* type needs, and the reporting loop that follows it.                     *)
(*                                                                         *)
(* Positions in generic parameter lists and in substs are 1-based here     *)
(* (Rust index i is position i + 1); position 1 is always `Self`.          *)
(***************************************************************************)
EXTENDS Integers, Sequences, FiniteSets, TLC

VARIABLES
    associated_items,        \* the trait's items, in declaration order
    required_bounds_by_item, \* gat def_id -> set of clauses (a partial map)
    should_continue,         \* the dirty flag of the current pass
    gat_idx,                 \* position of the outer `for gat_item` loop
    pc,                      \* "loop" | "report" | "done"
    reported,                \* map entries the reporting loop has consumed
    diags,                   \* diagnostics emitted so far, in emission order
    run,                     \* 1 or 2: which run of the check on this trait
    first_diags,             \* the diagnostics of run 1, kept for comparison
    pass,                    \* which turn of the `loop` is running, from 1
    decl,                    \* the declaration a per-item session checks
    features,                \* tcx.features() of the compilation
    ipc,                     \* position of the per-item session
    obligations,             \* obligations registered in the session, in order
    reported_errors,         \* obligations that resolution reported as failed
    returned_wf_tys,         \* implied-bounds set returned by the callback
    regionck_wf_tys,         \* implied-bounds set regionck_item received
    sess_diags,              \* diagnostics emitted outside obligation resolution
    crate_decls,             \* the declarations of the crate the pass visits
    visit_state,             \* per declaration: progress of its check
    sink,                    \* the session's diagnostics, tagged by declaration
    oracle_calls,            \* the arguments of each call of the outlives oracle
    oracle_state             \* per call: position, InferCtxt, environment, result

item_vars == <<decl, features, ipc, obligations, reported_errors, returned_wf_tys,
               regionck_wf_tys, sess_diags>>

gat_vars == <<associated_items, required_bounds_by_item, should_continue,
              gat_idx, pc, reported, diags, run, first_diags, pass>>

\* The pass over a crate: its declarations, each declaration's check, and the
\* diagnostics the session has received.
driver_vars == <<crate_decls, visit_state, sink>>

\* The calls of the outlives oracle that are under way.
oracle_vars == <<oracle_calls, oracle_state>>

vars == <<gat_vars, item_vars, driver_vars, oracle_vars>>

----------------------------------------------------------------------------
(* Bounds *)

\* Longest associated-item list of a trait.
MaxItems == 3

\* The pass counter stops counting here; the loop itself goes on.
MaxPass == 8

\* Most variants of an enum.
MaxVariants == 2

\* Most parameters of a function signature.
MaxInputs == 2

\* Most dereference steps of a method receiver.
MaxDeref == 2

----------------------------------------------------------------------------
(* Regions, types, generic arguments *)

\* The region `'static`; every other region is the position of a lifetime
\* parameter in the generics of the item it occurs in.
ReStatic == 0

\* A type `&'r1 &'r2 ... P`: the reference regions from the outside in, and
\* the position of the type parameter P.
Ty(refs, base) == [refs |-> refs, base |-> base]

NoTy == Ty(<<>>, 0)

LifetimeArg(r) == [kind |-> "Lifetime", region |-> r, ty |-> NoTy, late_bound |-> FALSE]
LateBoundArg(r) == [kind |-> "Lifetime", region |-> r, ty |-> NoTy, late_bound |-> TRUE]
TypeArg(t) == [kind |-> "Type", region |-> ReStatic, ty |-> t, late_bound |-> FALSE]

\* A projection `<P0 as Trait>::GAT<P1..Pm>` occurring in a type.
Projection(gat, substs) == [item_def_id |-> gat, substs |-> substs]

\* An outlives predicate over parameter positions: `a: b`.
TypeOutlives(a, b) == [kind |-> "TypeOutlives", a |-> a, b |-> b]
RegionOutlives(a, b) == [kind |-> "RegionOutlives", a |-> a, b |-> b]

\* Parameter names, as strings of character codes.
NameSelf == <<83, 101, 108, 102>>
NameA == <<39, 97>>
NameB == <<39, 98>>

LifetimeParam(name) == [kind |-> "Lifetime", name |-> name]
TypeParam(name) == [kind |-> "Type", name |-> name]

SelfTy == Ty(<<>>, 1)

----------------------------------------------------------------------------
(* Associated items of a trait *)

\* One associated item as check_gat_where_clauses sees it:
\*   kind           hir::AssocItemKind (Fn, Type or Const)
\*   params         generics, parent (`Self`) first; own parameters follow
\*   caller_bounds  the outlives predicates of tcx.param_env(item)
\*   inputs         sig.inputs() of a method
\*   to_check       the projections occurring in the method's return type
\*                  (Fn) or in explicit_item_bounds (Type)
AssocItem(def_id, kind, params, caller_bounds, inputs, to_check) ==
    [def_id |-> def_id, kind |-> kind, params |-> params,
     caller_bounds |-> caller_bounds, inputs |-> inputs, to_check |-> to_check]

\* Items traits are assembled from.  Entries 1..3 are the IntoIter example
\* of the source:
\*   type Iter<'a>: Iterator<Item = Self::Item<'a>>;
\*   type Item<'a>;
\*   fn into_iter<'a>(&'a self) -> Self::Iter<'a>;
\* then
\*   type Item<'a> where Self: 'a;
\*   fn get<'a>(&self) -> Self::Item<'a>;
\*   type Two<'a, 'b>;
\*   fn two<'a, 'b>(x: &'a &'b Self) -> Self::Two<'a, 'b>;
\*   const N: usize;
\*   fn st<'a>(&'a self) -> Self::Iter<'static>;
\*   type Hr: for<'c> Fn(Self::Item<'c>);
\*   fn pair<'a, 'b>(x: &'a &'b Self) -> (Self::Item<'a>, Self::Item<'b>);
ItemPool == <<
    AssocItem(1, "Type", <<TypeParam(NameSelf), LifetimeParam(NameA)>>, {}, <<>>,
              {Projection(1, <<TypeArg(SelfTy), LifetimeArg(2)>>),
               Projection(2, <<TypeArg(SelfTy), LifetimeArg(2)>>)}),
    AssocItem(2, "Type", <<TypeParam(NameSelf), LifetimeParam(NameA)>>, {}, <<>>, {}),
    AssocItem(3, "Fn", <<TypeParam(NameSelf), LifetimeParam(NameA)>>, {},
              <<Ty(<<2>>, 1)>>,
              {Projection(1, <<TypeArg(SelfTy), LifetimeArg(2)>>)}),
    AssocItem(2, "Type", <<TypeParam(NameSelf), LifetimeParam(NameA)>>,
              {TypeOutlives(1, 2)}, <<>>, {}),
    AssocItem(4, "Fn", <<TypeParam(NameSelf), LifetimeParam(NameA), LifetimeParam(NameB)>>,
              {}, <<Ty(<<3>>, 1)>>,
              {Projection(2, <<TypeArg(SelfTy), LifetimeArg(2)>>)}),
    AssocItem(5, "Type",
              <<TypeParam(NameSelf), LifetimeParam(NameA), LifetimeParam(NameB)>>,
              {}, <<>>, {}),
    AssocItem(6, "Fn",
              <<TypeParam(NameSelf), LifetimeParam(NameA), LifetimeParam(NameB)>>,
              {}, <<Ty(<<2, 3>>, 1)>>,
              {Projection(5, <<TypeArg(SelfTy), LifetimeArg(2), LifetimeArg(3)>>)}),
    AssocItem(7, "Const", <<TypeParam(NameSelf)>>, {}, <<>>, {}),
    AssocItem(8, "Fn", <<TypeParam(NameSelf), LifetimeParam(NameA)>>, {},
              <<Ty(<<2>>, 1)>>,
              {Projection(1, <<TypeArg(SelfTy), LifetimeArg(ReStatic)>>)}),
    AssocItem(9, "Type", <<TypeParam(NameSelf)>>, {}, <<>>,
              {Projection(2, <<TypeArg(SelfTy), LateBoundArg(2)>>)}),
    AssocItem(10, "Fn",
              <<TypeParam(NameSelf), LifetimeParam(NameA), LifetimeParam(NameB)>>,
              {}, <<Ty(<<2, 3>>, 1)>>,
              {Projection(2, <<TypeArg(SelfTy), LifetimeArg(2)>>),
               Projection(2, <<TypeArg(SelfTy), LifetimeArg(3)>>)})
>>

\* def_ids of the IntoIter example.
IterId == ItemPool[1].def_id
ItemId == ItemPool[2].def_id
IntoIterId == ItemPool[3].def_id

\* Sequences of n distinct pool positions.
RECURSIVE Arrangements(_)
Arrangements(n) ==
    IF n = 0 THEN {<<>>}
    ELSE {Append(s, k) : s \in Arrangements(n - 1), k \in DOMAIN ItemPool}

\* A trait's item list: pool items in any order, no def_id twice.
Traits ==
    {[i \in DOMAIN s |-> ItemPool[s[i]]] :
        s \in {t \in UNION {Arrangements(n) : n \in 1..MaxItems} :
                  \A i, j \in DOMAIN t :
                      i # j => ItemPool[t[i]].def_id # ItemPool[t[j]].def_id}}

----------------------------------------------------------------------------
(* The outlives oracle *)

\* OutlivesEnvironment::add_implied_bounds: what well-formedness of a type
\* lets one assume.  WF(&'r1 &'r2 P) gives P: 'r1, P: 'r2 and 'r2: 'r1.
implied_bounds_of_ty(ty) ==
    {TypeOutlives(ty.base, ty.refs[i]) : i \in DOMAIN ty.refs}
        \cup {RegionOutlives(ty.refs[p[2]], ty.refs[p[1]]) :
                 p \in {q \in (DOMAIN ty.refs) \X (DOMAIN ty.refs) : q[1] < q[2]}}

\* OutlivesEnvironment::new(param_env) followed by add_implied_bounds(wf_tys).
outlives_environment(param_env, wf_tys) ==
    param_env \cup UNION {implied_bounds_of_ty(t) : t \in wf_tys}

\* Region resolution: `a: b` follows from the environment when a is b, a is
\* 'static, or a chain of declared/implied region bounds leads from a to b.
RECURSIVE region_outlives(_, _, _, _)
region_outlives(env, a, b, fuel) ==
    \/ a = b
    \/ a = ReStatic
    \/ /\ fuel > 0
       /\ \E f \in env :
             /\ f.kind = "RegionOutlives"
             /\ f.a = a
             /\ region_outlives(env, f.b, b, fuel - 1)

\* TypeOutlives::type_must_outlive: every component of the type outlives the
\* region; a parameter does so only through a bound of the environment.
type_must_outlive(env, ty, region) ==
    /\ \A i \in DOMAIN ty.refs :
           region_outlives(env, ty.refs[i], region, Cardinality(env))
    /\ \E f \in env :
           /\ f.kind = "TypeOutlives"
           /\ f.a = ty.base
           /\ region_outlives(env, f.b, region, Cardinality(env))

\* resolve_regions_with_wf_tys: a fresh context, the environment seeded from
\* param_env and wf_tys, then the one candidate constraint; TRUE when
\* resolution reports no error.
resolve_regions_with_wf_tys(param_env, wf_tys, constraint) ==
    LET env == outlives_environment(param_env, wf_tys)
        errors ==
            IF constraint.kind = "TypeOutlives"
            THEN IF type_must_outlive(env, constraint.a, constraint.b) THEN {} ELSE {constraint}
            ELSE IF region_outlives(env, constraint.a, constraint.b, Cardinality(env))
                 THEN {} ELSE {constraint}
    IN  errors = {}

ty_known_to_outlive(param_env, wf_tys, ty, region) ==
    resolve_regions_with_wf_tys(param_env, wf_tys, TypeOutlives(ty, region))

region_known_to_outlive(param_env, wf_tys, region_a, region_b) ==
    resolve_regions_with_wf_tys(param_env, wf_tys, RegionOutlives(region_a, region_b))

----------------------------------------------------------------------------
(* gather_gat_bounds *)

None == [some |-> FALSE, bounds |-> {}]
Some(bounds) == [some |-> TRUE, bounds |-> bounds]

\* GATSubstCollector: the (argument, position) pairs of every projection
\* onto `gat` in `to_check`; late-bound lifetimes and consts are left out.
GATSubstCollector_visit(gat, to_check) ==
    LET ps == {p \in to_check : p.item_def_id = gat}
    IN  [regions |->
            UNION {{<<p.substs[i].region, i>> :
                      i \in {j \in DOMAIN p.substs :
                                /\ p.substs[j].kind = "Lifetime"
                                /\ ~p.substs[j].late_bound}} : p \in ps},
         types |->
            UNION {{<<p.substs[i].ty, i>> :
                      i \in {j \in DOMAIN p.substs : p.substs[j].kind = "Type"}} :
                   p \in ps}]

\* Mutation of gather_gat_bounds: an occurrence that yields no clause counts
\* as no occurrence.
gather_gat_bounds_none_if_empty(param_env, to_check, wf_tys, gat_def_id) ==
    LET coll == GATSubstCollector_visit(gat_def_id, to_check)
        regions == coll.regions
        types == coll.types
        live == {ra \in regions : ra[1] # ReStatic}
        ty_clauses ==
            {TypeOutlives(p[2][2], p[1][2]) :
                p \in {q \in live \X types :
                          ty_known_to_outlive(param_env, wf_tys, q[2][1], q[1][1])}}
        region_clauses ==
            {RegionOutlives(p[1][2], p[2][2]) :
                p \in {q \in live \X regions :
                          /\ ~(q[2][1] = ReStatic \/ q[1][1] = q[2][1])
                          /\ region_known_to_outlive(param_env, wf_tys, q[1][1], q[2][1])}}
    IN  IF ty_clauses \cup region_clauses = {}
        THEN None
        ELSE Some(ty_clauses \cup region_clauses)

\* Mutation of gather_gat_bounds: a region argument is paired with itself.
gather_gat_bounds_self_pairs(param_env, to_check, wf_tys, gat_def_id) ==
    LET coll == GATSubstCollector_visit(gat_def_id, to_check)
        regions == coll.regions
        types == coll.types
        live == {ra \in regions : ra[1] # ReStatic}
        ty_clauses ==
            {TypeOutlives(p[2][2], p[1][2]) :
                p \in {q \in live \X types :
                          ty_known_to_outlive(param_env, wf_tys, q[2][1], q[1][1])}}
        region_clauses ==
            {RegionOutlives(p[1][2], p[2][2]) :
                p \in {q \in live \X regions :
                          /\ q[2][1] # ReStatic
                          /\ region_known_to_outlive(param_env, wf_tys, q[1][1], q[2][1])}}
    IN  IF types = {} /\ regions = {}
        THEN None
        ELSE Some(ty_clauses \cup region_clauses)

gather_gat_bounds(param_env, to_check, wf_tys, gat_def_id) ==
    LET coll == GATSubstCollector_visit(gat_def_id, to_check)
        regions == coll.regions
        types == coll.types
        live == {ra \in regions : ra[1] # ReStatic}
        ty_clauses ==
            {TypeOutlives(p[2][2], p[1][2]) :
                p \in {q \in live \X types :
                          ty_known_to_outlive(param_env, wf_tys, q[2][1], q[1][1])}}
        region_clauses ==
            {RegionOutlives(p[1][2], p[2][2]) :
                p \in {q \in live \X regions :
                          /\ ~(q[2][1] = ReStatic \/ q[1][1] = q[2][1])
                          /\ region_known_to_outlive(param_env, wf_tys, q[1][1], q[2][1])}}
    IN  IF types = {} /\ regions = {}
        THEN None
        ELSE Some(ty_clauses \cup region_clauses)

\* Mutation of augment_param_env: the inferred bounds are never added.
augment_param_env_dropped(param_env, new_predicates) == param_env

\* Add a new set of predicates to the caller bounds of a param_env.
augment_param_env(param_env, new_predicates) ==
    IF ~new_predicates.some THEN param_env
    ELSE IF new_predicates.bounds = {} THEN param_env
    ELSE param_env \cup new_predicates.bounds

\* required_bounds_by_item.get(&def_id)
MapGet(map, def_id) ==
    IF def_id \in DOMAIN map THEN Some(map[def_id]) ELSE None

\* Whether an associated item is a GAT: an associated type with own
\* generic parameters (the first parameter is the trait's `Self`).
IsGat(item) == item.kind = "Type" /\ Tail(item.params) # <<>>

\* The bounds one associated item requires of the GAT (the `match item.kind`).
item_required_bounds(item, gat, required) ==
    IF item.kind = "Fn"
    THEN gather_gat_bounds(item.caller_bounds, item.to_check,
                           {item.inputs[i] : i \in DOMAIN item.inputs}, gat.def_id)
    ELSE IF item.kind = "Type"
    THEN gather_gat_bounds(
             augment_param_env(item.caller_bounds, MapGet(required, item.def_id)),
             item.to_check, {}, gat.def_id)
    ELSE None

\* Mutation of retain: the items' bounds are united, not intersected.
retain_union(new_required, item_required) == new_required \cup item_required

\* new_required_bounds.retain(|b| item_required_bounds.contains(b))
retain(new_required, item_required) == new_required \cap item_required

\* Mutation of skip_own_gat: the GAT is consulted about itself.
skip_own_gat_never(item, gat) == FALSE

\* Whether the inner loop skips `item` while gathering for `gat`.
skip_own_gat(item, gat) == item.def_id = gat.def_id

\* Mutation of new_required_bounds: no intersection, the bounds of the last
\* consulted item stand.
RECURSIVE new_required_bounds_last_wins(_, _, _, _)
new_required_bounds_last_wins(gat, items, required, n) ==
    IF n = 0 THEN None
    ELSE LET acc == new_required_bounds_last_wins(gat, items, required, n - 1)
             irb == item_required_bounds(items[n], gat, required)
         IN  IF skip_own_gat(items[n], gat) THEN acc
             ELSE IF ~irb.some THEN acc
             ELSE irb

\* The inner `for item in associated_items` loop over the first n items.
RECURSIVE new_required_bounds(_, _, _, _)
new_required_bounds(gat, items, required, n) ==
    IF n = 0 THEN None
    ELSE LET acc == new_required_bounds(gat, items, required, n - 1)
             irb == item_required_bounds(items[n], gat, required)
         IN  IF skip_own_gat(items[n], gat) THEN acc
             ELSE IF ~irb.some THEN acc
             ELSE IF acc.some THEN Some(retain(acc.bounds, irb.bounds))
             ELSE irb

\* Mutation of insert_any: the pass is flagged as having changed the set
\* whenever it gathered anything, new or not.
insert_any_flag_nonempty(required_bounds, new_bounds) ==
    {[set |-> required_bounds \cup new_bounds, any |-> new_bounds # {}]}

\* `new_required_bounds.into_iter().any(|p| required_bounds.insert(p))`:
\* `any` stops at the first insertion that finds the clause new, and the set
\* is walked in hash order, so exactly one of the new clauses goes in (those
\* walked before it were present already).  The possible resulting sets.
\* Each outcome is the set afterwards and the value `any` returns.
insert_any(required_bounds, new_bounds) ==
    IF new_bounds \subseteq required_bounds
    THEN {[set |-> required_bounds, any |-> FALSE]}
    ELSE {[set |-> required_bounds \cup {p}, any |-> TRUE] :
             p \in new_bounds \ required_bounds}

\* required_bounds_by_item.entry(gat_def_id).or_default()
entry_or_default(map, def_id) ==
    IF def_id \in DOMAIN map THEN map ELSE (def_id :> {}) @@ map

----------------------------------------------------------------------------
(* Reporting *)

\* Lexicographic order on strings of character codes (String's Ord).
RECURSIVE StrLess(_, _)
StrLess(s, t) ==
    IF s = <<>> THEN t # <<>>
    ELSE IF t = <<>> THEN FALSE
    ELSE IF Head(s) # Head(t) THEN Head(s) < Head(t)
    ELSE StrLess(Tail(s), Tail(t))

\* Display of an outlives predicate over the GAT's own parameters: "a: b".
clause_to_string(gat, clause) ==
    gat.params[clause.a].name \o <<58, 32>> \o gat.params[clause.b].name

\* Vec::sort
RECURSIVE InsertSorted(_, _)
InsertSorted(sorted, x) ==
    IF sorted = <<>> THEN <<x>>
    ELSE IF StrLess(x, Head(sorted)) THEN <<x>> \o sorted
    ELSE <<Head(sorted)>> \o InsertSorted(Tail(sorted), x)

RECURSIVE sort(_)
sort(v) ==
    IF v = <<>> THEN <<>> ELSE InsertSorted(sort(Tail(v)), Head(v))

\* The environment the final filter proves a clause in: the GAT's own
\* tcx.param_env, with an empty set of implied-bounds types.
clause_known(param_env, clause) ==
    IF clause.kind = "RegionOutlives"
    THEN region_known_to_outlive(param_env, {}, clause.a, clause.b)
    ELSE ty_known_to_outlive(param_env, {}, Ty(<<>>, clause.a), clause.b)

\* Mutation of unsatisfied_clauses: the filter proves each clause in the
\* environment augmented with the inferred bounds themselves.
unsatisfied_clauses_augmented(gat, required_bounds) ==
    {clause \in required_bounds :
        ~clause_known(gat.caller_bounds \cup required_bounds, clause)}

\* The clauses of a map entry that the filter keeps.
unsatisfied_clauses(gat, required_bounds) ==
    {clause \in required_bounds : ~clause_known(gat.caller_bounds, clause)}

\* The orders a hash set of clauses can be walked in.
Enumerations(S) ==
    {f \in [1..Cardinality(S) -> S] : \A i, j \in DOMAIN f : i # j => f[i] # f[j]}

ItemOf(items, def_id) ==
    items[CHOOSE i \in DOMAIN items : items[i].def_id = def_id]

----------------------------------------------------------------------------
(* check_gat_where_clauses as a state machine *)

\* The per-item session is not running while a trait's GATs are checked.
ItemIdle ==
    /\ decl = [kind |-> "None"]
    /\ features = [trivial_bounds |-> FALSE, arbitrary_self_types |-> FALSE,
                   adt_const_params |-> FALSE]
    /\ ipc = "idle"
    /\ obligations = <<>>
    /\ reported_errors = {}
    /\ returned_wf_tys = {}
    /\ regionck_wf_tys = {}
    /\ sess_diags = <<>>

\* The pass over a crate is not running.
DriverIdle ==
    /\ crate_decls = <<>>
    /\ visit_state = <<>>
    /\ sink = <<>>

\* check_gat_where_clauses is not running.
GatIdle ==
    /\ associated_items = <<>>
    /\ required_bounds_by_item = <<>>
    /\ should_continue = FALSE
    /\ gat_idx = 1
    /\ pc = "idle"
    /\ reported = {}
    /\ diags = <<>>
    /\ run = 1
    /\ first_diags = <<>>
    /\ pass = 1

\* No call of the outlives oracle is followed step by step.
OracleIdle ==
    /\ oracle_calls = <<>>
    /\ oracle_state = <<>>

InitGat ==
    /\ ItemIdle
    /\ DriverIdle
    /\ OracleIdle
    /\ associated_items \in Traits
    /\ required_bounds_by_item = <<>>
    /\ should_continue = FALSE
    /\ gat_idx = 1
    /\ pc = "loop"
    /\ reported = {}
    /\ diags = <<>>
    /\ run = 1
    /\ first_diags = <<>>
    /\ pass = 1

\* One turn of the outer `for gat_item in associated_items` on an item that
\* is not a GAT: `continue`.
SkipNonGat ==
    /\ pc = "loop"
    /\ gat_idx \in DOMAIN associated_items
    /\ ~IsGat(associated_items[gat_idx])
    /\ gat_idx' = gat_idx + 1
    /\ UNCHANGED <<associated_items, required_bounds_by_item, should_continue,
                   pc, reported, diags, run, first_diags, pass>>
    /\ UNCHANGED <<item_vars, driver_vars, oracle_vars>>

\* One turn of the outer loop on a GAT: gather, intersect, merge.
ProcessGat ==
    /\ pc = "loop"
    /\ gat_idx \in DOMAIN associated_items
    /\ IsGat(associated_items[gat_idx])
    /\ LET gat == associated_items[gat_idx]
           new == new_required_bounds(gat, associated_items, required_bounds_by_item,
                                      Len(associated_items))
       IN  IF new.some
           THEN LET map == entry_or_default(required_bounds_by_item, gat.def_id)
                IN  \E out \in insert_any(map[gat.def_id], new.bounds) :
                       /\ required_bounds_by_item' = [map EXCEPT ![gat.def_id] = out.set]
                       /\ should_continue' = (should_continue \/ out.any)
           ELSE UNCHANGED <<required_bounds_by_item, should_continue>>
    /\ gat_idx' = gat_idx + 1
    /\ UNCHANGED <<associated_items, pc, reported, diags, run, first_diags, pass>>
    /\ UNCHANGED <<item_vars, driver_vars, oracle_vars>>

\* End of a pass: `if !should_continue { break; }`, else the next pass.
EndPass ==
    /\ pc = "loop"
    /\ gat_idx = Len(associated_items) + 1
    /\ IF should_continue
       THEN /\ should_continue' = FALSE
            /\ gat_idx' = 1
            /\ pc' = "loop"
            /\ pass' = IF pass < MaxPass THEN pass + 1 ELSE pass
       ELSE /\ pc' = "report"
            /\ UNCHANGED <<should_continue, gat_idx, pass>>
    /\ UNCHANGED <<associated_items, required_bounds_by_item, reported, diags,
                   run, first_diags>>
    /\ UNCHANGED <<item_vars, driver_vars, oracle_vars>>

\* One turn of `for (gat_def_id, required_bounds) in required_bounds_by_item`.
\* The map is a hash map: which entry comes next is not fixed by the code.
Report ==
    /\ pc = "report"
    /\ \E gat_def_id \in DOMAIN required_bounds_by_item \ reported :
          LET gat == ItemOf(associated_items, gat_def_id)
              unsat == unsatisfied_clauses(gat, required_bounds_by_item[gat_def_id])
          IN  \E walk \in Enumerations(unsat) :
                 LET unsatisfied_bounds ==
                         sort([i \in DOMAIN walk |-> clause_to_string(gat, walk[i])])
                 IN  /\ diags' =
                            IF unsatisfied_bounds # <<>>
                            THEN Append(diags, [gat |-> gat_def_id,
                                                bounds |-> unsatisfied_bounds,
                                                plural |-> Len(unsatisfied_bounds) > 1])
                            ELSE diags
                     /\ reported' = reported \cup {gat_def_id}
    /\ UNCHANGED <<associated_items, required_bounds_by_item, should_continue,
                   gat_idx, pc, run, first_diags, pass>>
    /\ UNCHANGED <<item_vars, driver_vars, oracle_vars>>

\* The reporting loop has walked every entry: the function returns.
FinishReport ==
    /\ pc = "report"
    /\ reported = DOMAIN required_bounds_by_item
    /\ pc' = "done"
    /\ UNCHANGED <<associated_items, required_bounds_by_item, should_continue,
                   gat_idx, reported, diags, run, first_diags, pass>>
    /\ UNCHANGED <<item_vars, driver_vars, oracle_vars>>

\* The checker is run a second time on the unchanged trait.
Rerun ==
    /\ pc = "done"
    /\ run = 1
    /\ run' = 2
    /\ first_diags' = diags
    /\ required_bounds_by_item' = <<>>
    /\ should_continue' = FALSE
    /\ gat_idx' = 1
    /\ pc' = "loop"
    /\ reported' = {}
    /\ diags' = <<>>
    /\ pass' = 1
    /\ UNCHANGED associated_items
    /\ UNCHANGED <<item_vars, driver_vars, oracle_vars>>

NextGat ==
    \/ SkipNonGat
    \/ ProcessGat
    \/ EndPass
    \/ Report
    \/ FinishReport
    \/ Rerun

SpecGat == InitGat /\ [][NextGat]_vars

\* The loop is straight-line code: a step that can be taken is taken.
FairSpecGat == SpecGat /\ WF_vars(NextGat)

----------------------------------------------------------------------------
(* The outlives oracle, call by call *)

\* Most calls of the oracle that are under way together.
MaxCalls == 2

OracleCall(param_env, wf_tys, constraint) ==
    [param_env |-> param_env, wf_tys |-> wf_tys, constraint |-> constraint]

\* Calls as gather_gat_bounds makes them on the methods of ItemPool.
OracleCalls ==
    {OracleCall(pe, wf, c) :
        pe \in {{}, {TypeOutlives(1, 2)}},
        wf \in {{}, {Ty(<<2, 3>>, 1)}},
        c \in {TypeOutlives(SelfTy, 2), TypeOutlives(SelfTy, 3),
               RegionOutlives(3, 2), RegionOutlives(2, 3)}}

\* Mutation of infer_ctxt: the context of a call starts with the region
\* constraints of the calls already under way.
infer_ctxt_shared(states, i) ==
    UNION {states[j].infcx : j \in DOMAIN states \ {i}}

\* `tcx.infer_ctxt().enter`: a new InferCtxt, without region constraints.
infer_ctxt(states, i) == {}

\* infcx.resolve_regions: the constraints of the context that do not follow
\* from the environment.
resolve_regions(env, constraints) ==
    {c \in constraints :
        IF c.kind = "TypeOutlives"
        THEN ~type_must_outlive(env, c.a, c.b)
        ELSE ~region_outlives(env, c.a, c.b, Cardinality(env))}

InitOracle ==
    /\ GatIdle
    /\ ItemIdle
    /\ DriverIdle
    /\ oracle_calls \in UNION {[1..k -> OracleCalls] : k \in 1..MaxCalls}
    /\ oracle_state = [i \in DOMAIN oracle_calls |->
                          [pc |-> "called", infcx |-> {}, env |-> {}, result |-> FALSE]]

\* `tcx.infer_ctxt().enter(|infcx| {`
EnterInfcx(i) ==
    /\ oracle_state[i].pc = "called"
    /\ oracle_state' = [oracle_state EXCEPT ![i].pc = "entered",
                                            ![i].infcx = infer_ctxt(oracle_state, i)]
    /\ UNCHANGED <<oracle_calls, gat_vars, item_vars, driver_vars>>

\* OutlivesEnvironment::new(param_env), add_implied_bounds(wf_tys),
\* save_implied_bounds.
SetUpEnvironment(i) ==
    /\ oracle_state[i].pc = "entered"
    /\ oracle_state' =
           [oracle_state EXCEPT
               ![i].pc = "environment",
               ![i].env = outlives_environment(oracle_calls[i].param_env,
                                               oracle_calls[i].wf_tys)]
    /\ UNCHANGED <<oracle_calls, gat_vars, item_vars, driver_vars>>

\* `add_constraints(&infcx, region_bound_pairs)`: the candidate relation.
AddConstraints(i) ==
    /\ oracle_state[i].pc = "environment"
    /\ oracle_state' =
           [oracle_state EXCEPT
               ![i].pc = "constrained",
               ![i].infcx = oracle_state[i].infcx \cup {oracle_calls[i].constraint}]
    /\ UNCHANGED <<oracle_calls, gat_vars, item_vars, driver_vars>>

\* `let errors = infcx.resolve_regions(..); errors.is_empty()`, and the end
\* of the closure, where the InferCtxt is dropped.
ResolveRegions(i) ==
    /\ oracle_state[i].pc = "constrained"
    /\ oracle_state' =
           [oracle_state EXCEPT
               ![i].pc = "returned",
               ![i].result = (resolve_regions(oracle_state[i].env,
                                              oracle_state[i].infcx) = {}),
               ![i].infcx = {}]
    /\ UNCHANGED <<oracle_calls, gat_vars, item_vars, driver_vars>>

NextOracle ==
    \/ \E i \in DOMAIN oracle_calls : EnterInfcx(i)
    \/ \E i \in DOMAIN oracle_calls : SetUpEnvironment(i)
    \/ \E i \in DOMAIN oracle_calls : AddConstraints(i)
    \/ \E i \in DOMAIN oracle_calls : ResolveRegions(i)

SpecOracle == InitOracle /\ [][NextOracle]_vars

----------------------------------------------------------------------------
(* Properties of check_gat_where_clauses *)

Gats == {associated_items[i] : i \in {j \in DOMAIN associated_items :
                                          IsGat(associated_items[j])}}

\* The accumulated set of a GAT; empty when the map has no entry for it.
Accumulated(gat) ==
    IF gat.def_id \in DOMAIN required_bounds_by_item
    THEN required_bounds_by_item[gat.def_id]
    ELSE {}

\* The items other than `gat` in which `gat` occurs, under the current map.
ConsultingItems(gat) ==
    {associated_items[i] : i \in {j \in DOMAIN associated_items :
        /\ associated_items[j].def_id # gat.def_id
        /\ item_required_bounds(associated_items[j], gat,
                                required_bounds_by_item).some}}

FactsOf(item, gat) ==
    item_required_bounds(item, gat, required_bounds_by_item).bounds

DiagsFor(gat) == {i \in DOMAIN diags : diags[i].gat = gat.def_id}

\* C1: the fixpoint loop terminates: from any point inside the loop the
\* reporting phase is eventually reached.
C1_LoopTerminates == (pc = "loop") ~> (pc = "report")

\* C1 witness: the loop has been left with bounds inferred for two GATs.
C1_Witness ==
    /\ pc = "report"
    /\ \E g, h \in Gats :
          /\ g.def_id # h.def_id
          /\ Accumulated(g) # {}
          /\ Accumulated(h) # {}

\* C2: once the fixpoint is reached, a GAT that some item consults has as
\* accumulated set exactly the clauses every consulting item derives under
\* the final map, and a GAT no item consults has no entry.
C2_FixpointIsIntersection ==
    pc \in {"report", "done"} =>
        \A gat \in Gats :
            IF ConsultingItems(gat) = {}
            THEN gat.def_id \notin DOMAIN required_bounds_by_item
            ELSE /\ gat.def_id \in DOMAIN required_bounds_by_item
                 /\ required_bounds_by_item[gat.def_id] =
                        {c \in UNION {FactsOf(i, gat) : i \in ConsultingItems(gat)} :
                            \A i \in ConsultingItems(gat) : c \in FactsOf(i, gat)}

\* C2 witness: the fixpoint is reached for a GAT that two items consult,
\* one deriving a clause and the other none, so nothing is inferred.
C2_Witness ==
    /\ pc = "report"
    /\ \E gat \in Gats :
          /\ Cardinality(ConsultingItems(gat)) >= 2
          /\ Accumulated(gat) = {}
          /\ \E i \in ConsultingItems(gat) : FactsOf(i, gat) # {}

IsIntoIterTrait ==
    /\ Len(associated_items) = 3
    /\ {associated_items[i] : i \in DOMAIN associated_items}
           = {ItemPool[1], ItemPool[2], ItemPool[3]}

SelfOutlivesA == TypeOutlives(1, 2)

\* C3: for the IntoIter trait, in any order of its three items, the loop
\* ends with `Self: 'a` required of both Iter and Item, and the reporting
\* loop emits exactly one diagnostic for each of them.
C3_IntoIterBounds ==
    IsIntoIterTrait =>
        /\ pc \in {"report", "done"} =>
              /\ IterId \in DOMAIN required_bounds_by_item
              /\ ItemId \in DOMAIN required_bounds_by_item
              /\ SelfOutlivesA \in required_bounds_by_item[IterId]
              /\ SelfOutlivesA \in required_bounds_by_item[ItemId]
        /\ pc = "done" =>
              /\ Len(diags) = 2
              /\ {diags[i].gat : i \in DOMAIN diags} = {IterId, ItemId}

\* C3 witness: the IntoIter trait listed with Item first has been checked.
C3_Witness ==
    /\ IsIntoIterTrait
    /\ associated_items[1].def_id = ItemId
    /\ pc = "done"
    /\ Len(diags) = 2

\* The clauses of a GAT's accumulated set that its own declared environment
\* does not prove, with no implied bounds.
Missing(gat) ==
    {c \in Accumulated(gat) :
        IF c.kind = "RegionOutlives"
        THEN ~region_known_to_outlive(gat.caller_bounds, {}, c.a, c.b)
        ELSE ~ty_known_to_outlive(gat.caller_bounds, {}, Ty(<<>>, c.a), c.b)}

\* C4: after the reporting loop, each GAT has at most one diagnostic; it
\* has one exactly when some accumulated clause is not provable from its own
\* declared environment, and the diagnostic lists exactly those clauses.
C4_OneDiagnosticPerGat ==
    /\ \A gat \in Gats : Cardinality(DiagsFor(gat)) <= 1
    /\ pc = "done" =>
          \A gat \in Gats :
              /\ (DiagsFor(gat) # {}) <=> (Missing(gat) # {})
              /\ \A i \in DiagsFor(gat) :
                    /\ {diags[i].bounds[k] : k \in DOMAIN diags[i].bounds}
                           = {clause_to_string(gat, c) : c \in Missing(gat)}
                    /\ Len(diags[i].bounds) = Cardinality(Missing(gat))

\* C4 witness: one GAT got a diagnostic, another has an inferred bound that
\* its own where-clause already declares and got none.
C4_Witness ==
    /\ pc = "done"
    /\ \E gat \in Gats : DiagsFor(gat) # {}
    /\ \E gat \in Gats : Accumulated(gat) # {} /\ DiagsFor(gat) = {}

\* C5: a second run of the check on the unchanged trait emits the same
\* diagnostics in the same order as the first.
C5_SameDiagnosticsOnRerun ==
    (run = 2 /\ pc = "done") => diags = first_diags

----------------------------------------------------------------------------
(* Types as the per-item checks see them *)

\* Types are named by their source text.  "_" is an unresolved inference
\* variable, "ExternTy" an `extern { type }`, "Wrap<ExternTy>" a struct whose
\* last field is ExternTy, "T" and "U" type parameters.

\* Normalization resolves the projections whose impl is known.
normalize_associated_types_in(ty) ==
    CASE ty = "<u8 as Id>::Out" -> "i32"
      [] ty = "<u8 as Id>::Ext" -> "ExternTy"
      [] ty = "<u8 as Id>::Str" -> "String"
      [] OTHER -> ty

\* The type of the last field of a struct type; "" for every other type.
last_field_ty(ty) ==
    CASE ty = "Wrap<ExternTy>" -> "ExternTy"
      [] ty = "Wrap<Wrap<ExternTy>>" -> "Wrap<ExternTy>"
      [] ty = "Pair<i32, str>" -> "str"
      [] OTHER -> ""

RECURSIVE struct_tail_erasing_lifetimes(_)
struct_tail_erasing_lifetimes(ty) ==
    IF last_field_ty(ty) = "" THEN ty
    ELSE struct_tail_erasing_lifetimes(last_field_ty(ty))

\* ty::Foreign
is_foreign_ty(ty) == ty = "ExternTy"

\* ty.needs_infer()
needs_infer(ty) == ty = "_"

\* ty.needs_drop(tcx, param_env)
needs_drop(ty) == ty \in {"String", "T", "U", "<T as Tr>::Out"}

\* The trait solver's verdict on one obligation.
predicate_holds(o) ==
    CASE o.pred = "Sized" ->
             o.tys[1] \notin {"str", "ExternTy", "Wrap<ExternTy>",
                              "Wrap<Wrap<ExternTy>>", "Pair<i32, str>"}
      [] o.pred = "Sync" -> o.tys[1] \notin {"Cell<i32>", "T", "U"}
      [] o.pred = "WF" -> o.tys[1] \notin {"Vec<str>"}
      [] o.pred = "Copy" -> o.tys[1] \in {"i32", "bool"}
      [] o.pred = "PartialEq" -> o.tys[1] = o.tys[2]
      [] OTHER -> TRUE

\* An obligation: the predicate, its types, the cause code, for a field the
\* (variant, field) position and the `last` flag of FieldSized, and whether
\* it is proved in the item's param_env or in the empty one.
Obligation(pred, tys, cause, loc, last, env) ==
    [pred |-> pred, tys |-> tys, cause |-> cause, loc |-> loc, last |-> last,
     env |-> env]

register_wf_obligation(ty, cause, loc) ==
    Obligation("WF", <<ty>>, cause, loc, FALSE, "param_env")

register_bound(ty, trait, cause, loc, last) ==
    Obligation(trait, <<ty>>, cause, loc, last, "param_env")

----------------------------------------------------------------------------
(* Generics, predicates and check_where_clauses *)

GenericParamDef(kind, name, has_default, default, inherited) ==
    [kind |-> kind, name |-> name, has_default |-> has_default,
     default |-> default, inherited |-> inherited]

Predicate(trait, tys, has_region) ==
    [trait |-> trait, tys |-> tys, has_region |-> has_region]

\* generics_of and predicates_of of a declaration.
Header(params, predicates) == [params |-> params, predicates |-> predicates]

\* The declaration headers items are given:
\*   (none)
\*   <T: Copy = String>
\*   <T: Copy = i32> where i32: Copy
\*   <'a, T: 'a + Copy = i32>
\*   <T = i32, U = i32> where T: PartialEq<U>
\*   <T = U, U: Copy>
\*   where String: Copy
\*   <'a, T>
\*   <T: Copy = String>, T and its default inherited from the parent
\*   <T: Copy = U, U = i32>
\*   <T, U> where T: Iterator<Item = U>
\*   <'a, T: 'a>
\*   <'_>, a lifetime parameter whose name is ParamName::Error
\*   <T>
HeaderPool == <<
    Header(<<>>, <<>>),
    Header(<<GenericParamDef("Type", "T", TRUE, "String", FALSE)>>,
           <<Predicate("Copy", <<"T">>, FALSE)>>),
    Header(<<GenericParamDef("Type", "T", TRUE, "i32", FALSE)>>,
           <<Predicate("Copy", <<"T">>, FALSE), Predicate("Copy", <<"i32">>, FALSE)>>),
    Header(<<GenericParamDef("Lifetime", "'a", FALSE, "", FALSE),
             GenericParamDef("Type", "T", TRUE, "i32", FALSE)>>,
           <<Predicate("Outlives", <<"T">>, TRUE), Predicate("Copy", <<"T">>, FALSE)>>),
    Header(<<GenericParamDef("Type", "T", TRUE, "i32", FALSE),
             GenericParamDef("Type", "U", TRUE, "i32", FALSE)>>,
           <<Predicate("PartialEq", <<"T", "U">>, FALSE)>>),
    Header(<<GenericParamDef("Type", "T", TRUE, "U", FALSE),
             GenericParamDef("Type", "U", FALSE, "", FALSE)>>,
           <<Predicate("Copy", <<"U">>, FALSE)>>),
    Header(<<>>, <<Predicate("Copy", <<"String">>, FALSE)>>),
    Header(<<GenericParamDef("Lifetime", "'a", FALSE, "", FALSE),
             GenericParamDef("Type", "T", FALSE, "", FALSE)>>,
           <<>>),
    Header(<<GenericParamDef("Type", "T", TRUE, "String", TRUE)>>,
           <<Predicate("Copy", <<"T">>, FALSE)>>),
    Header(<<GenericParamDef("Type", "T", TRUE, "U", FALSE),
             GenericParamDef("Type", "U", TRUE, "i32", FALSE)>>,
           <<Predicate("Copy", <<"T">>, FALSE)>>),
    Header(<<GenericParamDef("Type", "T", FALSE, "", FALSE),
             GenericParamDef("Type", "U", FALSE, "", FALSE)>>,
           <<Predicate("Iterator", <<"T">>, FALSE),
             Predicate("ProjectionEq", <<"T", "U">>, FALSE)>>),
    Header(<<GenericParamDef("Lifetime", "'a", FALSE, "", FALSE),
             GenericParamDef("Type", "T", FALSE, "", FALSE)>>,
           <<Predicate("Outlives", <<"T">>, TRUE)>>),
    Header(<<GenericParamDef("Lifetime", "{error}", FALSE, "", FALSE)>>, <<>>),
    Header(<<GenericParamDef("Type", "T", FALSE, "", FALSE)>>, <<>>)
>>

Headers == {HeaderPool[i] : i \in DOMAIN HeaderPool}

\* `generics.parent.is_some()`: parameters come from an enclosing trait or impl.
has_parent(hdr) == \E i \in DOMAIN hdr.params : hdr.params[i].inherited

\* Generics of free items: no parent.
ItemHeaders == {hdr \in Headers : ~has_parent(hdr)}

ParamNames(generics) ==
    {generics[i].name : i \in {j \in DOMAIN generics : generics[j].kind # "Lifetime"}}

\* ty.needs_subst(): the type mentions a generic parameter.
needs_subst(generics, ty) == ty \in ParamNames(generics)

\* `is_our_default`: the parameter has a default that this declaration,
\* not an enclosing one, introduces.
is_our_default(def) == def.has_default /\ ~def.inherited

\* The first loop of check_where_clauses: the WF obligations of the concrete
\* defaults, over the first n parameters.
RECURSIVE default_wf_obligations(_, _)
default_wf_obligations(generics, n) ==
    IF n = 0 THEN <<>>
    ELSE LET param == generics[n]
             rest == default_wf_obligations(generics, n - 1)
         IN  IF /\ param.kind \in {"Type", "Const"}
                /\ is_our_default(param)
                /\ ~needs_subst(generics, param.default)
             THEN Append(rest,
                         register_wf_obligation(
                             param.default,
                             IF param.kind = "Type" THEN "MiscObligation"
                             ELSE "WellFormed(None)",
                             <<>>))
             ELSE rest

\* The defaulted substitution applied to one type.
subst_defaults(generics, ty) ==
    LET hits == {i \in DOMAIN generics :
                    /\ generics[i].kind # "Lifetime"
                    /\ generics[i].name = ty
                    /\ is_our_default(generics[i])
                    /\ ~needs_subst(generics, generics[i].default)}
    IN  IF hits = {} THEN ty ELSE generics[CHOOSE i \in hits : TRUE].default

substituted_pred(generics, pred) ==
    [pred EXCEPT !.tys = [i \in DOMAIN pred.tys |-> subst_defaults(generics, pred.tys[i])]]

\* CountParams: the parameters a predicate mentions.
count_params(generics, pred) ==
    {pred.tys[i] : i \in DOMAIN pred.tys} \cap ParamNames(generics)

has_param_types_or_consts(generics, pred) ==
    \E i \in DOMAIN pred.tys : pred.tys[i] \in ParamNames(generics)

\* Mutation of yields_default_obligation: predicates with several
\* parameters are substituted too.
yields_default_obligation_multi(hdr, pred) ==
    LET sp == substituted_pred(hdr.params, pred)
    IN  /\ ~(has_param_types_or_consts(hdr.params, sp) \/ pred.has_region)
        /\ ~(\E i \in DOMAIN hdr.predicates : hdr.predicates[i] = sp)

\* Whether a declared predicate yields a defaulted-substitution obligation.
yields_default_obligation(hdr, pred) ==
    LET sp == substituted_pred(hdr.params, pred)
    IN  /\ ~( \/ has_param_types_or_consts(hdr.params, sp)
              \/ Cardinality(count_params(hdr.params, pred)) > 1
              \/ pred.has_region )
        /\ ~(\E i \in DOMAIN hdr.predicates : hdr.predicates[i] = sp)

RECURSIVE default_obligations(_, _)
default_obligations(hdr, n) ==
    IF n = 0 THEN <<>>
    ELSE LET pred == hdr.predicates[n]
             sp == substituted_pred(hdr.params, pred)
             rest == default_obligations(hdr, n - 1)
         IN  IF yields_default_obligation(hdr, pred)
             THEN Append(rest,
                         Obligation(sp.trait,
                                    [i \in DOMAIN sp.tys |->
                                        normalize_associated_types_in(sp.tys[i])],
                                    "ItemObligation", <<>>, FALSE, "param_env"))
             ELSE rest

\* traits::wf::predicate_obligations over the first n declared predicates:
\* the types a predicate names must be well-formed.
RECURSIVE wf_obligations(_, _)
wf_obligations(hdr, n) ==
    IF n = 0 THEN <<>>
    ELSE wf_obligations(hdr, n - 1) \o
         [i \in DOMAIN hdr.predicates[n].tys |->
             register_wf_obligation(
                 normalize_associated_types_in(hdr.predicates[n].tys[i]),
                 "WellFormed(None)", <<>>)]

\* The obligations check_where_clauses registers, in registration order.
check_where_clauses(hdr) ==
    default_wf_obligations(hdr.params, Len(hdr.params))
        \o wf_obligations(hdr, Len(hdr.predicates))
        \o default_obligations(hdr, Len(hdr.predicates))

----------------------------------------------------------------------------
(* check_type_defn *)

AdtVariant(fields, explicit_discr) ==
    [fields |-> fields, explicit_discr |-> explicit_discr]

\* The closure `needs_drop_copy`; it reads the last field, so it is only
\* evaluated on a variant that has one.
needs_drop_copy(packed, variant) ==
    packed /\ LET ty == variant.fields[Len(variant.fields)]
              IN  IF needs_infer(ty) THEN TRUE ELSE needs_drop(ty)

\* Mutation of unsized_len: a variant without fields is not set apart.
unsized_len_fields_unchecked(all_sized, packed, variant) ==
    IF all_sized THEN 0 ELSE 1

\* Mutation of unsized_len: unions and enums exempt their last field too.
unsized_len_any_kind(all_sized, packed, variant) ==
    IF variant.fields = <<>> \/ needs_drop_copy(packed, variant) THEN 0 ELSE 1

\* `all_sized || variant.fields.is_empty() || needs_drop_copy()` and the
\* number of trailing fields exempted from Sized.
unsized_len(all_sized, packed, variant) ==
    IF all_sized \/ variant.fields = <<>> \/ needs_drop_copy(packed, variant)
    THEN 0 ELSE 1

\* The FieldSized obligations of variant number vi.
field_sized_obligations(adt_kind, all_sized, packed, variant, vi) ==
    [idx \in 1..(Len(variant.fields) - unsized_len(all_sized, packed, variant)) |->
        register_bound(variant.fields[idx], "Sized", "FieldSized", <<vi, idx>>,
                       idx = Len(variant.fields))]

field_wf_obligations(variant, vi) ==
    [idx \in DOMAIN variant.fields |->
        register_wf_obligation(variant.fields[idx], "WellFormed(Ty)", <<vi, idx>>)]

discr_obligations(variant, vi) ==
    IF variant.explicit_discr
    THEN <<Obligation("ConstEvaluatable", <<>>, "MiscObligation", <<vi>>, FALSE,
                      "param_env")>>
    ELSE <<>>

\* The `for variant in &variants` loop over the first n variants.
RECURSIVE variant_obligations(_, _, _, _, _)
variant_obligations(adt_kind, all_sized, packed, variants, n) ==
    IF n = 0 THEN <<>>
    ELSE variant_obligations(adt_kind, all_sized, packed, variants, n - 1)
            \o field_sized_obligations(adt_kind, all_sized, packed, variants[n], n)
            \o field_wf_obligations(variants[n], n)
            \o discr_obligations(variants[n], n)

\* The `all_sized` argument check_item_well_formed passes for each ADT kind.
all_sized_of(adt_kind) == adt_kind # "Struct"

\* Mutation of check_type_defn: the field types are handed on as implied
\* bounds.
check_type_defn_fields_implied(d) ==
    [obligations |->
         variant_obligations(d.kind, all_sized_of(d.kind), d.packed, d.variants,
                             Len(d.variants))
             \o check_where_clauses(d.hdr),
     wf_tys |-> UNION {{d.variants[vi].fields[i] : i \in DOMAIN d.variants[vi].fields} :
                          vi \in DOMAIN d.variants}]

\* What the callback of check_type_defn registers and returns.
check_type_defn(d) ==
    [obligations |->
         variant_obligations(d.kind, all_sized_of(d.kind), d.packed, d.variants,
                             Len(d.variants))
             \o check_where_clauses(d.hdr),
     wf_tys |-> {}]

----------------------------------------------------------------------------
(* check_fn_or_method, check_item_fn *)

\* `implied_bounds.extend(sig.inputs()); implied_bounds.insert(sig.output())`
\* on the normalized signature.
fn_implied_bounds(implied_bounds, inputs, output) ==
    implied_bounds \cup {inputs[i] : i \in DOMAIN inputs} \cup {output}

check_fn_or_method(hdr, sig_inputs, sig_output, implied_bounds) ==
    LET inputs == [i \in DOMAIN sig_inputs |->
                       normalize_associated_types_in(sig_inputs[i])]
        output == normalize_associated_types_in(sig_output)
    IN  [obligations |->
             [i \in DOMAIN inputs |->
                 register_wf_obligation(inputs[i], "WellFormed(Param)", <<i>>)]
                 \o <<register_wf_obligation(output, "ReturnType", <<>>)>>
                 \o check_where_clauses(hdr),
         wf_tys |-> fn_implied_bounds(implied_bounds, inputs, output)]

check_item_fn(d) == check_fn_or_method(d.hdr, d.inputs, d.output, {})

----------------------------------------------------------------------------
(* check_item_type *)

\* tcx.static_mutability: None for anything but a static.
static_mutability(d) ==
    IF d.kind \in {"Static", "ForeignStatic"} THEN d.mutability ELSE "None"

is_foreign_item(d) == d.kind \in {"ForeignStatic", "ForeignFn", "ForeignType"}

is_thread_local_static(d) == d.thread_local

\* The `allow_foreign_ty` argument check_item_well_formed passes.
allow_foreign_ty_of(d) == d.kind = "ForeignStatic"

\* Mutation of forbid_unsized: a foreign tail exempts every item.
forbid_unsized_any_item(item_ty, allow_foreign_ty) ==
    ~is_foreign_ty(struct_tail_erasing_lifetimes(item_ty))

forbid_unsized(item_ty, allow_foreign_ty) ==
    ~(allow_foreign_ty /\ is_foreign_ty(struct_tail_erasing_lifetimes(item_ty)))

\* Mutation of should_check_for_sync: thread-local statics are not exempt.
should_check_for_sync_thread_local(d) ==
    /\ static_mutability(d) = "Not"
    /\ ~is_foreign_item(d)

should_check_for_sync(d) ==
    /\ static_mutability(d) = "Not"
    /\ ~is_foreign_item(d)
    /\ ~is_thread_local_static(d)

check_item_type(d, allow_foreign_ty) ==
    LET item_ty == normalize_associated_types_in(d.ty)
    IN  [obligations |->
             <<register_wf_obligation(item_ty, "WellFormed(Ty)", <<>>)>>
                 \o (IF forbid_unsized(item_ty, allow_foreign_ty)
                     THEN <<register_bound(item_ty, "Sized", "MiscObligation", <<>>, FALSE)>>
                     ELSE <<>>)
                 \o (IF should_check_for_sync(d)
                     THEN <<register_bound(item_ty, "Sync", "SharedStatic", <<>>, FALSE)>>
                     ELSE <<>>),
         wf_tys |-> {}]

----------------------------------------------------------------------------
(* check_impl, impl_implied_bounds, check_trait, check_associated_item *)

GenericArg(kind, name) == [kind |-> kind, name |-> name]

\* trait_ref.substs.types() of the normalized trait reference.
trait_ref_types(trait_ref) ==
    {normalize_associated_types_in(trait_ref[i].name) :
        i \in {j \in DOMAIN trait_ref : trait_ref[j].kind = "Type"}}

\* Mutation of impl_implied_bounds: the self type alone, trait impl or not.
impl_implied_bounds_self_only(impl) ==
    {normalize_associated_types_in(impl.self_ty)}

impl_implied_bounds(impl) ==
    IF impl.of_trait
    THEN trait_ref_types(impl.trait_ref)
    ELSE {normalize_associated_types_in(impl.self_ty)}

\* traits::wf::trait_obligations: the types of the trait reference must be
\* well-formed.
trait_obligations(trait_ref) ==
    LET tys == [i \in DOMAIN trait_ref |-> trait_ref[i]]
        RECURSIVE upto(_)
        upto(n) ==
            IF n = 0 THEN <<>>
            ELSE IF tys[n].kind = "Type"
                 THEN Append(upto(n - 1),
                             register_wf_obligation(
                                 normalize_associated_types_in(tys[n].name),
                                 "TraitRef", <<n>>))
                 ELSE upto(n - 1)
    IN  upto(Len(trait_ref))

check_impl(d) ==
    [obligations |->
         (IF d.of_trait
          THEN trait_obligations(d.trait_ref)
          ELSE <<register_wf_obligation(normalize_associated_types_in(d.self_ty),
                                        "WellFormed(Ty)", <<>>)>>)
             \o check_where_clauses(d.hdr),
     wf_tys |-> impl_implied_bounds(d)]

\* The session of check_trait.
check_trait(d) ==
    [obligations |-> check_where_clauses(d.hdr), wf_tys |-> {}]

\* check_associated_type_bounds: WF of every declared bound.
check_associated_type_bounds(d) ==
    wf_obligations(Header(<<>>, d.bounds), Len(d.bounds))

check_associated_item(d) ==
    LET implied_bounds ==
            IF d.container = "Trait" THEN {} ELSE impl_implied_bounds(d.impl)
    IN  IF d.assoc_kind = "Const"
        THEN [obligations |->
                  <<register_wf_obligation(normalize_associated_types_in(d.ty),
                                           "WellFormed(Ty)", <<>>)>>,
              wf_tys |-> implied_bounds]
        ELSE IF d.assoc_kind = "Fn"
        THEN check_fn_or_method(d.hdr, d.inputs, d.output, implied_bounds)
        ELSE [obligations |->
                  (IF d.container = "Trait"
                   THEN check_associated_type_bounds(d) ELSE <<>>)
                      \o (IF d.has_value
                          THEN <<register_wf_obligation(
                                     normalize_associated_types_in(d.ty),
                                     "WellFormed(Ty)", <<>>)>>
                          ELSE <<>>),
              wf_tys |-> implied_bounds]

----------------------------------------------------------------------------
(* check_param_wf *)

\* ty.kind() of the types a const parameter is declared with.  "{error}" is
\* the error type, "NoEq" a struct that does not derive PartialEq and Eq,
\* "Unit" one that does.
ty_kind(ty) ==
    CASE ty = "bool" -> "Bool"
      [] ty = "char" -> "Char"
      [] ty \in {"i32", "isize"} -> "Int"
      [] ty \in {"u8", "usize"} -> "Uint"
      [] ty = "{error}" -> "Error"
      [] ty = "fn()" -> "FnPtr"
      [] ty = "*const u8" -> "RawPtr"
      [] ty \in {"&fn()", "&*const u8", "&str", "&T"} -> "Ref"
      [] ty = "T" -> "Param"
      [] ty = "f32" -> "Float"
      [] OTHER -> "Adt"

\* ty.peel_refs()
peel_refs(ty) ==
    CASE ty = "&fn()" -> "fn()"
      [] ty = "&*const u8" -> "*const u8"
      [] ty = "&str" -> "str"
      [] ty = "&T" -> "T"
      [] OTHER -> ty

\* traits::search_for_structural_match_violation: the offending type, or ""
\* when there is none.
search_for_structural_match_violation(ty) ==
    CASE peel_refs(ty) = "NoEq" -> "NoEq"
      [] peel_refs(ty) = "T" -> "T"
      [] peel_refs(ty) = "f32" -> "f32"
      [] OTHER -> ""

\* The `err` of the branch with adt_const_params enabled.
unsupported_pointer(ty) ==
    CASE ty_kind(peel_refs(ty)) = "FnPtr" -> <<"function pointers forbidden">>
      [] ty_kind(peel_refs(ty)) = "RawPtr" -> <<"raw pointers forbidden">>
      [] OTHER -> <<>>

\* Mutation of legal_without_feature: the error type is not let through.
legal_without_feature_no_error(ty) ==
    ty_kind(ty) \in {"Bool", "Char", "Int", "Uint"}

\* The arm `ty::Bool | ty::Char | ty::Int(_) | ty::Uint(_) | ty::Error(_)`.
legal_without_feature(ty) ==
    ty_kind(ty) \in {"Bool", "Char", "Int", "Uint", "Error"}

\* The diagnostics check_param_wf emits for one generic parameter.
check_param_wf(param, feats) ==
    IF param.param_kind \in {"Lifetime", "Type"} THEN <<>>
    ELSE IF feats.adt_const_params
    THEN unsupported_pointer(param.ty)
         \o (IF search_for_structural_match_violation(param.ty) = "" THEN <<>>
             ELSE IF ty_kind(peel_refs(param.ty)) = "Param"
                  THEN <<"E0741: not guaranteed to derive PartialEq and Eq">>
                  ELSE <<"E0741: must derive PartialEq and Eq">>)
    ELSE IF legal_without_feature(param.ty) THEN <<>>
    ELSE IF ty_kind(param.ty) = "FnPtr" THEN <<"function pointers forbidden">>
    ELSE IF ty_kind(param.ty) = "RawPtr" THEN <<"raw pointers forbidden">>
    ELSE <<"forbidden as the type of a const generic parameter">>

----------------------------------------------------------------------------
(* check_method_receiver, receiver_is_valid *)

\* One type of a receiver's dereference chain: whether it can be equated
\* with the implementor type, whether it implements Receiver, and whether it
\* was reached by dereferencing a raw pointer.
DerefStep(eq_self, receiver_impl, raw) ==
    [eq_self |-> eq_self, receiver_impl |-> receiver_impl, raw |-> raw]

\* A method's receiver: the chain starting at the receiver type itself,
\* `references_error()` of the receiver type, and whether equating the
\* implementor type with the step that matches it reports an error (the
\* lifetimes differ).
Receiver(has_self, chain, references_error, eq_err) ==
    [has_self |-> has_self, chain |-> chain,
     references_error |-> references_error, eq_err |-> eq_err]

NoReceiver == Receiver(FALSE, <<>>, FALSE, FALSE)

\* Mutation of autoderef: the iteration ends at the first raw pointer when
\* include_raw_pointers() was called, and goes on without it.
autoderef_raw_swapped(chain, include_raw_pointers) ==
    IF ~include_raw_pointers THEN chain
    ELSE LET raws == {k \in DOMAIN chain : chain[k].raw}
         IN  IF raws = {} THEN chain
             ELSE SubSeq(chain, 1, (CHOOSE k \in raws : \A j \in raws : k <= j) - 1)

\* fcx.autoderef(span, receiver_ty), with include_raw_pointers() or without:
\* without it the iteration ends at the first raw pointer.
autoderef(chain, include_raw_pointers) ==
    IF include_raw_pointers THEN chain
    ELSE LET raws == {k \in DOMAIN chain : chain[k].raw}
         IN  IF raws = {} THEN chain
             ELSE SubSeq(chain, 1, (CHOOSE k \in raws : \A j \in raws : k <= j) - 1)

receiver_is_implemented(step) == step.receiver_impl

\* demand_eqtype_with_origin: the error it emits, if any.
demand_eqtype_with_origin(rcv) ==
    IF rcv.eq_err THEN <<"E0308">> ELSE <<>>

\* Mutation of receiver_walk: the Receiver bound of the intermediate steps
\* is not checked.
RECURSIVE receiver_walk_unchecked(_, _, _, _)
receiver_walk_unchecked(rcv, steps, k, arbitrary_self_types_enabled) ==
    IF k > Len(steps)
    THEN [valid |-> rcv.references_error, diags |-> <<>>]
    ELSE IF steps[k].eq_self
    THEN [valid |-> arbitrary_self_types_enabled
                        \/ receiver_is_implemented(steps[1]),
          diags |-> demand_eqtype_with_origin(rcv)]
    ELSE receiver_walk_unchecked(rcv, steps, k + 1, arbitrary_self_types_enabled)

\* The `loop` of receiver_is_valid from step k on, and the check after it.
RECURSIVE receiver_walk(_, _, _, _)
receiver_walk(rcv, steps, k, arbitrary_self_types_enabled) ==
    IF k > Len(steps)
    THEN [valid |-> rcv.references_error, diags |-> <<>>]
    ELSE IF steps[k].eq_self
    THEN [valid |-> arbitrary_self_types_enabled
                        \/ receiver_is_implemented(steps[1]),
          diags |-> demand_eqtype_with_origin(rcv)]
    ELSE IF ~arbitrary_self_types_enabled /\ ~receiver_is_implemented(steps[k])
    THEN [valid |-> FALSE, diags |-> <<>>]
    ELSE receiver_walk(rcv, steps, k + 1, arbitrary_self_types_enabled)

\* receiver_is_valid: the verdict and the diagnostics emitted on the way.
receiver_is_valid(rcv, arbitrary_self_types_enabled) ==
    IF rcv.chain[1].eq_self
    THEN [valid |-> TRUE, diags |-> demand_eqtype_with_origin(rcv)]
    ELSE receiver_walk(rcv, autoderef(rcv.chain, arbitrary_self_types_enabled), 2,
                       arbitrary_self_types_enabled)

\* Mutation of check_method_receiver: a receiver that strict validation
\* rejects always gets E0307.
check_method_receiver_plain(rcv, feats) ==
    IF ~rcv.has_self THEN <<>>
    ELSE LET r == receiver_is_valid(rcv, feats.arbitrary_self_types)
         IN  r.diags \o (IF r.valid THEN <<>> ELSE <<"E0307">>)

\* The diagnostics check_method_receiver emits.
check_method_receiver(rcv, feats) ==
    IF ~rcv.has_self THEN <<>>
    ELSE IF feats.arbitrary_self_types
    THEN LET r == receiver_is_valid(rcv, TRUE)
         IN  r.diags \o (IF r.valid THEN <<>> ELSE <<"E0307">>)
    ELSE LET st == receiver_is_valid(rcv, FALSE)
         IN  IF st.valid THEN st.diags
             ELSE LET r == receiver_is_valid(rcv, TRUE)
                  IN  st.diags \o r.diags
                          \o (IF r.valid THEN <<"feature: arbitrary_self_types">>
                              ELSE <<"E0307">>)

\* What the Fn arm of check_associated_item emits through
\* check_method_receiver.
method_receiver_diagnostics(d, feats) ==
    IF d.assoc_kind = "Fn" THEN check_method_receiver(d.receiver, feats) ELSE <<>>

----------------------------------------------------------------------------
(* regionck_item *)

\* The generic parameters a type names.
mentions(ty) ==
    CASE ty = "T" -> {"T"}
      [] ty = "U" -> {"U"}
      [] ty = "&'a T" -> {"'a", "T"}
      [] OTHER -> {}

\* Every parameter the types name is declared by the header.
well_scoped(hdr, tys) ==
    \A i \in DOMAIN tys :
        mentions(tys[i]) \subseteq {hdr.params[q].name : q \in DOMAIN hdr.params}

\* Well-formedness of `&'a T` requires `T: 'a`.
requires_outlives(ty) == ty = "&'a T"

\* `T: 'a` is among the declared predicates.
declares_outlives(hdr) ==
    \E i \in DOMAIN hdr.predicates : hdr.predicates[i].trait = "Outlives"

\* regionck_item: the WF obligations whose outlives requirement follows
\* neither from the declared predicates nor from the well-formedness of a
\* type in wf_tys.
regionck_item(hdr, obls, wf_tys) ==
    {obls[i] : i \in {j \in DOMAIN obls :
                         /\ obls[j].pred = "WF"
                         /\ requires_outlives(obls[j].tys[1])
                         /\ ~declares_outlives(hdr)
                         /\ obls[j].tys[1] \notin wf_tys}}

----------------------------------------------------------------------------
(* check_variances_for_type_defn *)

FieldTypes(d) ==
    UNION {{d.variants[vi].fields[i] : i \in DOMAIN d.variants[vi].fields} :
              vi \in DOMAIN d.variants}

\* tcx.has_error_field(ty)
has_error_field(d) == "{error}" \in FieldTypes(d)

\* tcx.variances_of: a parameter no field names is bivariant.
variances_of(d) ==
    [q \in DOMAIN d.hdr.params |->
        IF \E ty \in FieldTypes(d) : d.hdr.params[q].name \in mentions(ty)
        THEN "Covariant" ELSE "Bivariant"]

\* identify_constrained_generic_params: a projection predicate
\* `<T as Tr>::Assoc == U` constrains U once T is constrained.
RECURSIVE identify_constrained_generic_params(_, _, _)
identify_constrained_generic_params(hdr, constrained, fuel) ==
    LET more == {q \in DOMAIN hdr.params :
                    \E i \in DOMAIN hdr.predicates :
                        /\ hdr.predicates[i].trait = "ProjectionEq"
                        /\ hdr.predicates[i].tys[2] = hdr.params[q].name
                        /\ \E r \in constrained :
                               hdr.params[r].name = hdr.predicates[i].tys[1]}
    IN  IF fuel = 0 \/ more \subseteq constrained THEN constrained
        ELSE identify_constrained_generic_params(hdr, constrained \cup more, fuel - 1)

\* Mutation of constrained_parameters: the predicates are not consulted.
constrained_parameters_variance_only(d) ==
    {q \in DOMAIN d.hdr.params : variances_of(d)[q] # "Bivariant"}

constrained_parameters(d) ==
    identify_constrained_generic_params(
        d.hdr, {q \in DOMAIN d.hdr.params : variances_of(d)[q] # "Bivariant"},
        Len(d.hdr.params))

\* The parameters that a where-clause or bound of the declaration bounds.
explicitly_bounded_params(hdr) ==
    {q \in DOMAIN hdr.params :
        \E i \in DOMAIN hdr.predicates : hdr.predicates[i].tys[1] = hdr.params[q].name}

\* report_bivariance: E0392 for one parameter.
report_bivariance(param, has_explicit_bounds) ==
    [code |-> "E0392", param |-> param.name,
     const_help |-> param.kind = "Type" /\ ~has_explicit_bounds]

\* The `for (index, _) in variances.iter().enumerate()` loop over the first
\* n parameters.
RECURSIVE variance_reports(_, _)
variance_reports(d, n) ==
    IF n = 0 THEN <<>>
    ELSE IF n \in constrained_parameters(d) \/ d.hdr.params[n].name = "{error}"
    THEN variance_reports(d, n - 1)
    ELSE Append(variance_reports(d, n - 1),
                report_bivariance(d.hdr.params[n],
                                  n \in explicitly_bounded_params(d.hdr)))

check_variances_for_type_defn(d) ==
    IF has_error_field(d) THEN <<>>
    ELSE variance_reports(d, Len(d.hdr.params))

----------------------------------------------------------------------------
(* Declarations handed to check_item_well_formed and to the associated-item
   entry points *)

\* Every finite sequence over S of length at most n.
SeqsUpTo(S, n) == UNION {[1..k -> S] : k \in 0..n}

\* Field lists of a struct, a union or an enum variant.
FieldLists == {<<>>, <<"i32">>, <<"String">>, <<"str">>, <<"i32", "String">>,
               <<"String", "i32">>, <<"i32", "str">>, <<"i32", "_">>,
               <<"i32", "i32", "T">>, <<"&'a T">>, <<"{error}">>}

PlainVariants == {AdtVariant(fs, FALSE) : fs \in FieldLists}

EnumVariants ==
    PlainVariants \cup {AdtVariant(<<>>, TRUE), AdtVariant(<<"i32">>, TRUE)}

\* ItemKind::Struct and ItemKind::Union: one variant; ItemKind::Enum: any
\* number of them.
TypeDefns ==
    {d \in [kind : {"Struct", "Union"}, hdr : ItemHeaders, packed : BOOLEAN,
            variants : {<<v>> : v \in PlainVariants}]
         \cup [kind : {"Enum"}, hdr : {HeaderPool[1], HeaderPool[2]},
               packed : BOOLEAN, variants : SeqsUpTo(EnumVariants, MaxVariants)] :
        \A vi \in DOMAIN d.variants : well_scoped(d.hdr, d.variants[vi].fields)}

SigTys == {"i32", "String", "T", "<u8 as Id>::Out", "&'a T"}

\* ItemKind::Fn and ForeignItemKind::Fn.
FnItems ==
    {d \in [kind : {"Fn", "ForeignFn"}, hdr : ItemHeaders,
            inputs : SeqsUpTo(SigTys, MaxInputs), output : SigTys] :
        well_scoped(d.hdr, Append(d.inputs, d.output))}

ItemTys == {"i32", "String", "str", "Cell<i32>", "ExternTy", "Wrap<ExternTy>",
            "Wrap<Wrap<ExternTy>>", "<u8 as Id>::Ext", "<u8 as Id>::Out"}

\* ItemKind::Static, ForeignItemKind::Static and ItemKind::Const.
TypedItems ==
    [kind : {"Static", "ForeignStatic"}, hdr : {HeaderPool[1]}, ty : ItemTys,
     mutability : {"Not", "Mut"}, thread_local : BOOLEAN]
    \cup [kind : {"Const"}, hdr : {HeaderPool[1]}, ty : ItemTys,
          mutability : {"None"}, thread_local : {FALSE}]

TraitRefs == {
    <<GenericArg("Type", "String")>>,
    <<GenericArg("Type", "i32"), GenericArg("Lifetime", "'a"),
      GenericArg("Type", "<u8 as Id>::Str"), GenericArg("Const", "3")>>,
    <<GenericArg("Type", "T"), GenericArg("Type", "U")>>}

ImplShape(of_trait, trait_ref, self_ty) ==
    [of_trait |-> of_trait, trait_ref |-> trait_ref, self_ty |-> self_ty]

\* `impl Trait<..> for Self_` (the self type is the first argument of the
\* trait reference) and `impl Self_`.
ImplShapes ==
    {ImplShape(TRUE, tr, tr[1].name) : tr \in TraitRefs}
    \cup {ImplShape(FALSE, <<>>, ty) : ty \in {"String", "<u8 as Id>::Str"}}

\* tcx.impl_polarity(def_id) paired with the `impl_.polarity` it is computed
\* from: a `!` in the source gives Negative, a reservation attribute on a
\* positive impl gives Reservation.
ImplPolarities == {<<"Positive", "Positive">>, <<"Negative", "Negative">>,
                   <<"Reservation", "Positive">>}

\* ItemKind::Impl.
ImplItems ==
    {[kind |-> "Impl", hdr |-> h, polarity |-> pol[1], ast_polarity |-> pol[2],
      defaultness |-> df,
      is_auto |-> au, of_trait |-> sh.of_trait, trait_ref |-> sh.trait_ref,
      self_ty |-> sh.self_ty] :
        h \in {HeaderPool[1], HeaderPool[2]},
        pol \in ImplPolarities,
        df \in {"Final", "Default"},
        au \in BOOLEAN,
        sh \in ImplShapes}

\* ItemKind::Trait and ItemKind::TraitAlias.
TraitItems ==
    [kind : {"Trait", "TraitAlias"}, hdr : ItemHeaders, is_marker : BOOLEAN,
     n_assoc_items : {0, 2}]

\* Trait items and impl items: what check_associated_item is called on.
AssocDecls ==
    {[kind |-> "AssocItem", assoc_kind |-> ak, container |-> c, impl |-> sh,
      hdr |-> h, inputs |-> sg[1], output |-> sg[2], ty |-> sg[2],
      has_value |-> hv, bounds |-> bs, receiver |-> NoReceiver] :
        h \in {HeaderPool[1], HeaderPool[9]},
        ak \in {"Const", "Fn", "Type"},
        c \in {"Trait", "Impl"},
        sh \in ImplShapes,
        sg \in {<<<<>>, "i32">>, <<<<"i32">>, "String">>,
                <<<<"T", "<u8 as Id>::Out">>, "i32">>},
        hv \in BOOLEAN,
        bs \in {<<>>, <<Predicate("Copy", <<"Self">>, FALSE)>>}}

DerefSteps == {DerefStep(e, r, w) : e \in BOOLEAN, r \in BOOLEAN, w \in BOOLEAN}

\* Chains of the receiver type and up to MaxDeref dereferences of it.
DerefChains ==
    {c \in UNION {[1..k -> DerefSteps] : k \in 1..(MaxDeref + 1)} : ~c[1].raw}

Receivers ==
    {Receiver(TRUE, c, e, q) : c \in DerefChains, e \in BOOLEAN, q \in BOOLEAN}

\* Methods with a self parameter, in a trait or in an impl.
MethodDecls ==
    {[kind |-> "AssocItem", assoc_kind |-> "Fn", container |-> c,
      impl |-> ImplShape(FALSE, <<>>, "String"), hdr |-> HeaderPool[1],
      inputs |-> <<"i32">>, output |-> "i32", ty |-> "i32", has_value |-> TRUE,
      bounds |-> <<>>, receiver |-> rcv] :
        c \in {"Trait", "Impl"}, rcv \in Receivers}

ForeignTypes == {[kind |-> "ForeignType", hdr |-> HeaderPool[1]]}

ConstParamTys == {"bool", "char", "i32", "u8", "{error}", "fn()", "*const u8",
                  "&fn()", "&*const u8", "&str", "T", "f32", "NoEq", "Unit"}

\* The generic parameters visit_generic_param is called on.
GenericParams ==
    [kind : {"GenericParam"}, hdr : {HeaderPool[1]}, param_kind : {"Const"},
     ty : ConstParamTys]
    \cup [kind : {"GenericParam"}, hdr : {HeaderPool[1]},
          param_kind : {"Lifetime", "Type"}, ty : {""}]

Features ==
    [trivial_bounds : BOOLEAN, arbitrary_self_types : BOOLEAN,
     adt_const_params : BOOLEAN]

----------------------------------------------------------------------------
(* The per-item session: check_item_well_formed, for_item / for_id, with_fcx *)

IsTypeDefn(d) == d.kind \in {"Struct", "Union", "Enum"}

\* Mutation of opens_session: impls of every polarity are handed to
\* check_impl.
opens_session_any_polarity(d) == d.kind \notin {"ForeignType", "GenericParam"}

\* Whether the arm of check_item_well_formed for d opens a session at all.
opens_session(d) ==
    IF d.kind = "Impl" THEN d.polarity = "Positive"
    ELSE d.kind \notin {"ForeignType", "GenericParam"}

\* Diagnostics of check_item_well_formed's Impl arm and of check_trait before
\* with_fcx runs.
dispatch_diagnostics(d) ==
    IF d.kind = "Impl"
    THEN (IF d.defaultness = "Default" /\ d.is_auto /\ d.of_trait
          THEN <<"impls of auto traits cannot be default">> ELSE <<>>)
         \o (IF d.polarity = "Negative" /\ d.defaultness = "Default"
             THEN <<"E0750">> ELSE <<>>)
    ELSE IF d.kind \in {"Trait", "TraitAlias"} /\ d.is_marker /\ d.n_assoc_items > 0
    THEN [i \in 1..d.n_assoc_items |-> "E0714"]
    ELSE <<>>

\* predicates_of(def).predicates that are global: no parameter, no region.
global_predicates(hdr) ==
    SelectSeq(hdr.predicates,
              LAMBDA pr : ~pr.has_region /\ \A i \in DOMAIN pr.tys :
                                               ~needs_subst(hdr.params, pr.tys[i]))

\* The obligations check_false_global_bounds registers, with an empty
\* parameter environment.
false_global_obligations(hdr) ==
    LET gp == global_predicates(hdr)
    IN  [i \in DOMAIN gp |->
            Obligation(gp[i].trait, gp[i].tys, "TrivialBound", <<i>>, FALSE, "empty")]

failing(obls) == {obls[i] : i \in {j \in DOMAIN obls : ~predicate_holds(obls[j])}}

InitItem ==
    /\ DriverIdle
    /\ OracleIdle
    /\ associated_items = <<>>
    /\ required_bounds_by_item = <<>>
    /\ should_continue = FALSE
    /\ gat_idx = 1
    /\ pc = "idle"
    /\ reported = {}
    /\ diags = <<>>
    /\ run = 1
    /\ first_diags = <<>>
    /\ pass = 1
    /\ \/ decl \in TypeDefns
       \/ decl \in FnItems
       \/ decl \in TypedItems
       \/ decl \in ImplItems
       \/ decl \in TraitItems
       \/ decl \in AssocDecls
       \/ decl \in MethodDecls
       \/ decl \in ForeignTypes
       \/ decl \in GenericParams
    /\ features \in Features
    /\ ipc = "start"
    /\ obligations = <<>>
    /\ reported_errors = {}
    /\ returned_wf_tys = {}
    /\ regionck_wf_tys = {}
    /\ sess_diags = <<>>

\* The match of check_item_well_formed up to the call of for_item / for_id.
Dispatch ==
    /\ ipc = "start"
    /\ decl.kind # "GenericParam"
    /\ sess_diags' = sess_diags \o dispatch_diagnostics(decl)
    /\ ipc' = IF opens_session(decl) THEN "enter" ELSE "done"
    /\ UNCHANGED <<decl, features, obligations, reported_errors, returned_wf_tys,
                   regionck_wf_tys>>
    /\ UNCHANGED <<gat_vars, driver_vars, oracle_vars>>

\* CheckTypeWellFormedVisitor::visit_generic_param.
CheckParamWf ==
    /\ ipc = "start"
    /\ decl.kind = "GenericParam"
    /\ sess_diags' = sess_diags \o check_param_wf(decl, features)
    /\ ipc' = "done"
    /\ UNCHANGED <<decl, features, obligations, reported_errors, returned_wf_tys,
                   regionck_wf_tys>>
    /\ UNCHANGED <<gat_vars, driver_vars, oracle_vars>>

\* with_fcx, feature trivial_bounds off: check_false_global_bounds runs, and
\* resolves what it registered, before the callback.
CheckFalseGlobalBounds ==
    /\ ipc = "enter"
    /\ ~features.trivial_bounds
    /\ obligations' = obligations \o false_global_obligations(decl.hdr)
    /\ reported_errors' = reported_errors \cup failing(false_global_obligations(decl.hdr))
    /\ ipc' = "callback"
    /\ UNCHANGED <<decl, features, returned_wf_tys, regionck_wf_tys, sess_diags>>
    /\ UNCHANGED <<gat_vars, driver_vars, oracle_vars>>

\* with_fcx, feature trivial_bounds on: straight to the callback.
SkipFalseGlobalBounds ==
    /\ ipc = "enter"
    /\ features.trivial_bounds
    /\ ipc' = "callback"
    /\ UNCHANGED <<decl, features, obligations, reported_errors, returned_wf_tys,
                   regionck_wf_tys, sess_diags>>
    /\ UNCHANGED <<gat_vars, driver_vars, oracle_vars>>

\* `let wf_tys = f(&fcx)` for a type definition.
CheckTypeDefn ==
    /\ ipc = "callback"
    /\ IsTypeDefn(decl)
    /\ obligations' = obligations \o check_type_defn(decl).obligations
    /\ returned_wf_tys' = check_type_defn(decl).wf_tys
    /\ ipc' = "registered"
    /\ UNCHANGED <<decl, features, reported_errors, regionck_wf_tys, sess_diags>>
    /\ UNCHANGED <<gat_vars, driver_vars, oracle_vars>>

\* `let wf_tys = f(&fcx)` for a free or foreign function.
CheckItemFn ==
    /\ ipc = "callback"
    /\ decl.kind \in {"Fn", "ForeignFn"}
    /\ obligations' = obligations \o check_item_fn(decl).obligations
    /\ returned_wf_tys' = check_item_fn(decl).wf_tys
    /\ ipc' = "registered"
    /\ UNCHANGED <<decl, features, reported_errors, regionck_wf_tys, sess_diags>>
    /\ UNCHANGED <<gat_vars, driver_vars, oracle_vars>>

\* `let wf_tys = f(&fcx)` for a static, a foreign static or a const.
CheckItemType ==
    /\ ipc = "callback"
    /\ decl.kind \in {"Static", "ForeignStatic", "Const"}
    /\ obligations' = obligations
                          \o check_item_type(decl, allow_foreign_ty_of(decl)).obligations
    /\ returned_wf_tys' = check_item_type(decl, allow_foreign_ty_of(decl)).wf_tys
    /\ ipc' = "registered"
    /\ UNCHANGED <<decl, features, reported_errors, regionck_wf_tys, sess_diags>>
    /\ UNCHANGED <<gat_vars, driver_vars, oracle_vars>>

\* `let wf_tys = f(&fcx)` for a positive impl.
CheckImpl ==
    /\ ipc = "callback"
    /\ decl.kind = "Impl"
    /\ obligations' = obligations \o check_impl(decl).obligations
    /\ returned_wf_tys' = check_impl(decl).wf_tys
    /\ ipc' = "registered"
    /\ UNCHANGED <<decl, features, reported_errors, regionck_wf_tys, sess_diags>>
    /\ UNCHANGED <<gat_vars, driver_vars, oracle_vars>>

\* `let wf_tys = f(&fcx)` for a trait or a trait alias.
CheckTrait ==
    /\ ipc = "callback"
    /\ decl.kind \in {"Trait", "TraitAlias"}
    /\ obligations' = obligations \o check_trait(decl).obligations
    /\ returned_wf_tys' = check_trait(decl).wf_tys
    /\ ipc' = "registered"
    /\ UNCHANGED <<decl, features, reported_errors, regionck_wf_tys, sess_diags>>
    /\ UNCHANGED <<gat_vars, driver_vars, oracle_vars>>

\* `let wf_tys = f(&fcx)` for a trait item or an impl item.
CheckAssociatedItem ==
    /\ ipc = "callback"
    /\ decl.kind = "AssocItem"
    /\ obligations' = obligations \o check_associated_item(decl).obligations
    /\ returned_wf_tys' = check_associated_item(decl).wf_tys
    /\ sess_diags' = sess_diags \o method_receiver_diagnostics(decl, features)
    /\ ipc' = "registered"
    /\ UNCHANGED <<decl, features, reported_errors, regionck_wf_tys>>
    /\ UNCHANGED <<gat_vars, driver_vars, oracle_vars>>

\* `fcx.select_all_obligations_or_error()`.
SelectAll ==
    /\ ipc = "registered"
    /\ reported_errors' = reported_errors \cup failing(obligations)
    /\ ipc' = "selected"
    /\ UNCHANGED <<decl, features, obligations, returned_wf_tys, regionck_wf_tys,
                   sess_diags>>
    /\ UNCHANGED <<gat_vars, driver_vars, oracle_vars>>

\* `fcx.regionck_item(id, span, wf_tys)`.
Regionck ==
    /\ ipc = "selected"
    /\ regionck_wf_tys' = returned_wf_tys
    /\ reported_errors' =
           reported_errors \cup regionck_item(decl.hdr, obligations, returned_wf_tys)
    /\ ipc' = IF IsTypeDefn(decl) THEN "variances" ELSE "done"
    /\ UNCHANGED <<decl, features, obligations, returned_wf_tys, sess_diags>>
    /\ UNCHANGED <<gat_vars, driver_vars, oracle_vars>>

\* check_variances_for_type_defn, which check_item_well_formed calls after
\* check_type_defn has returned.
CheckVariances ==
    /\ ipc = "variances"
    /\ sess_diags' = sess_diags \o check_variances_for_type_defn(decl)
    /\ ipc' = "done"
    /\ UNCHANGED <<decl, features, obligations, reported_errors, returned_wf_tys,
                   regionck_wf_tys>>
    /\ UNCHANGED <<gat_vars, driver_vars, oracle_vars>>

NextItem ==
    \/ Dispatch
    \/ CheckParamWf
    \/ CheckFalseGlobalBounds
    \/ SkipFalseGlobalBounds
    \/ CheckTypeDefn
    \/ CheckItemFn
    \/ CheckItemType
    \/ CheckImpl
    \/ CheckTrait
    \/ CheckAssociatedItem
    \/ SelectAll
    \/ Regionck
    \/ CheckVariances

SpecItem == InitItem /\ [][NextItem]_vars

----------------------------------------------------------------------------
(* Panic sites of the checks *)

\* `all_sized || variant.fields.is_empty() || needs_drop_copy()`: whether the
\* closure needs_drop_copy is called at all.
needs_drop_copy_called_unguarded(all_sized, variant) == ~all_sized

needs_drop_copy_called(all_sized, variant) ==
    ~all_sized /\ variant.fields # <<>>

\* `variant.fields.last().unwrap()` inside needs_drop_copy, reached when the
\* closure is called on a packed type.
last_field_unwrap_panics(all_sized, packed, variant) ==
    needs_drop_copy_called(all_sized, variant) /\ packed /\ variant.fields = <<>>

\* `variant.fields[..variant.fields.len() - unsized_len]`: the subtraction
\* underflows when a variant without fields is given unsized_len = 1.
field_slice_panics(all_sized, packed, variant) ==
    Len(variant.fields) < unsized_len(all_sized, packed, variant)

\* item_adt_kind: None for everything that is not a struct, union or enum.
item_adt_kind(kind) ==
    IF kind \in {"Struct", "Union", "Enum"} THEN kind ELSE "None"

\* The panics of check_type_defn: the unwrap and the slice per variant, and
\* `None => bug!()` when a FieldSized obligation is built for a non-ADT.
check_type_defn_panics(d) ==
    \E vi \in DOMAIN d.variants :
        LET variant == d.variants[vi]
        IN  \/ last_field_unwrap_panics(all_sized_of(d.kind), d.packed, variant)
            \/ field_slice_panics(all_sized_of(d.kind), d.packed, variant)
            \/ /\ item_adt_kind(d.kind) = "None"
               /\ Len(variant.fields)
                      > unsized_len(all_sized_of(d.kind), d.packed, variant)

\* `_ => unreachable!()` of the polarity match in check_item_well_formed.
polarity_match_panics(d) ==
    ~ \/ d.polarity = "Positive"
      \/ d.polarity = "Negative" /\ d.ast_polarity = "Negative"
      \/ d.polarity = "Reservation"

\* The `sig_if_method` check_trait_item and check_impl_item pass on: Some for
\* a method in the HIR, which is the item tcx.associated_item describes.
sig_if_method(d) == IF d.assoc_kind = "Fn" THEN "Some" ELSE "None"

\* `sig_if_method.expect("bad signature for method")`.
method_sig_expect_panics(d) ==
    d.assoc_kind = "Fn" /\ sig_if_method(d) = "None"

\* `fn_sig.decl.inputs[0]` and `sig.inputs()[0]` of check_method_receiver,
\* read once `method.fn_has_self_parameter` holds.
receiver_index_panics(d) ==
    d.assoc_kind = "Fn" /\ d.receiver.has_self /\ d.receiver.chain = <<>>

\* `tcx.impl_trait_ref(item.def_id).unwrap()` of check_impl, reached when the
\* impl names a trait in the HIR.
impl_trait_ref_unwrap_panics(d) == d.of_trait /\ d.trait_ref = <<>>

\* `unreachable!()` of is_our_default, which check_where_clauses calls for
\* type and const parameters only.
is_our_default_panics(hdr) ==
    \E i \in DOMAIN hdr.params :
        /\ hdr.params[i].kind \in {"Type", "Const"}
        /\ hdr.params[i].kind = "Lifetime"

\* `assert_eq!(ty_predicates.parent, None)` of check_variances_for_type_defn,
\* reached unless a field has the error type.
variances_assert_panics(d) == ~has_error_field(d) /\ has_parent(d.hdr)

\* Whether checking declaration d reaches a panic.
item_panics(d) ==
    CASE IsTypeDefn(d) ->
             \/ check_type_defn_panics(d)
             \/ is_our_default_panics(d.hdr)
             \/ variances_assert_panics(d)
      [] d.kind = "Impl" ->
             \/ polarity_match_panics(d)
             \/ /\ d.polarity = "Positive"
                /\ impl_trait_ref_unwrap_panics(d) \/ is_our_default_panics(d.hdr)
      [] d.kind = "AssocItem" ->
             \/ method_sig_expect_panics(d)
             \/ receiver_index_panics(d)
             \/ d.assoc_kind = "Fn" /\ is_our_default_panics(d.hdr)
      [] d.kind \in {"ForeignType", "GenericParam"} -> FALSE
      [] OTHER -> is_our_default_panics(d.hdr)

----------------------------------------------------------------------------
(* The pass: CheckTypeWellFormedVisitor over the declarations of a crate *)

\* Longest crate of several declarations.
MaxCrate == 2

\* The closure each check hands to with_fcx.
callback_of(d) ==
    CASE IsTypeDefn(d) -> check_type_defn(d)
      [] d.kind \in {"Fn", "ForeignFn"} -> check_item_fn(d)
      [] d.kind \in {"Static", "ForeignStatic", "Const"} ->
             check_item_type(d, allow_foreign_ty_of(d))
      [] d.kind = "Impl" -> check_impl(d)
      [] d.kind \in {"Trait", "TraitAlias"} -> check_trait(d)
      [] d.kind = "AssocItem" -> check_associated_item(d)

\* Mutation of with_fcx_obligations: the callback runs before
\* check_false_global_bounds.
with_fcx_obligations_callback_first(d, feats) ==
    callback_of(d).obligations
        \o (IF feats.trivial_bounds THEN <<>> ELSE false_global_obligations(d.hdr))

\* with_fcx up to the end of the callback: everything the session's
\* fulfillment context holds when resolution starts.
with_fcx_obligations(d, feats) ==
    (IF feats.trivial_bounds THEN <<>> ELSE false_global_obligations(d.hdr))
        \o callback_of(d).obligations

\* Diagnostics emitted before a session is opened.
visit_diagnostics(d, feats) ==
    IF d.kind = "GenericParam" THEN check_param_wf(d, feats)
    ELSE dispatch_diagnostics(d)

\* Diagnostics emitted inside and after the session, resolution aside.
session_diagnostics(d, feats) ==
    IF d.kind = "AssocItem" THEN method_receiver_diagnostics(d, feats)
    ELSE IF IsTypeDefn(d) THEN check_variances_for_type_defn(d)
    ELSE <<>>

\* Mutation of fulfillment_cx: one fulfillment context shared by all the
\* sessions that are open.
fulfillment_cx_shared(states, i) ==
    LET open == {j \in DOMAIN states : states[j].st = "session"}
        RECURSIVE cat(_)
        cat(j) == IF j > Len(states) THEN <<>>
                  ELSE (IF j \in open THEN states[j].obligations ELSE <<>>)
                           \o cat(j + 1)
    IN  cat(1)

\* for_id / for_item build an Inherited per declaration: the fulfillment
\* context of a session holds what that session registered.
fulfillment_cx(states, i) == states[i].obligations

\* select_all_obligations_or_error and regionck_item on a fulfillment context.
resolve(d, obls) ==
    failing(obls) \cup regionck_item(d.hdr, obls, callback_of(d).wf_tys)

\* The outcome of checking d alone.
check_alone(d, feats) ==
    [errors |-> IF opens_session(d)
                THEN resolve(d, with_fcx_obligations(d, feats)) ELSE {},
     emitted |-> visit_diagnostics(d, feats)
                     \o (IF opens_session(d) THEN session_diagnostics(d, feats)
                         ELSE <<>>)]

SinkEntry(i, errors, emitted) == [item |-> i, errors |-> errors, emitted |-> emitted]

\* A few declarations of different kinds and outcomes.
DriverPool == {
    [kind |-> "Struct", hdr |-> HeaderPool[8], packed |-> FALSE,
     variants |-> <<AdtVariant(<<"&'a T">>, FALSE)>>],
    [kind |-> "Struct", hdr |-> HeaderPool[12], packed |-> FALSE,
     variants |-> <<AdtVariant(<<"&'a T">>, FALSE)>>],
    [kind |-> "Struct", hdr |-> HeaderPool[2], packed |-> TRUE,
     variants |-> <<AdtVariant(<<>>, FALSE)>>],
    [kind |-> "Static", hdr |-> HeaderPool[1], ty |-> "Cell<i32>",
     mutability |-> "Not", thread_local |-> FALSE],
    [kind |-> "Fn", hdr |-> HeaderPool[7], inputs |-> <<"i32">>, output |-> "String"],
    [kind |-> "GenericParam", hdr |-> HeaderPool[1], param_kind |-> "Const",
     ty |-> "fn()"]}

AllDecls ==
    TypeDefns \cup FnItems \cup TypedItems \cup ImplItems \cup TraitItems
        \cup AssocDecls \cup MethodDecls \cup ForeignTypes \cup GenericParams

\* Crates: every declaration on its own, and the sequences over DriverPool.
Crates ==
    {<<d>> : d \in AllDecls} \cup (SeqsUpTo(DriverPool, MaxCrate) \ {<<>>})

InitDriver ==
    /\ GatIdle
    /\ OracleIdle
    /\ decl = [kind |-> "None"]
    /\ ipc = "idle"
    /\ obligations = <<>>
    /\ reported_errors = {}
    /\ returned_wf_tys = {}
    /\ regionck_wf_tys = {}
    /\ sess_diags = <<>>
    /\ features \in Features
    /\ crate_decls \in Crates
    /\ visit_state = [i \in DOMAIN crate_decls |-> [st |-> "pending", obligations |-> <<>>]]
    /\ sink = <<>>

\* A panic unwinds through the visitor and ends the pass.
Aborted == \E i \in DOMAIN visit_state : visit_state[i].st = "panicked"

\* visit_item / visit_trait_item / visit_impl_item / visit_generic_param on
\* declaration i, up to the point where its obligations are registered.
Visit(i) ==
    /\ ~Aborted
    /\ visit_state[i].st = "pending"
    /\ LET d == crate_decls[i]
       IN  IF item_panics(d)
           THEN /\ visit_state' = [visit_state EXCEPT ![i].st = "panicked"]
                /\ sink' = sink
           ELSE /\ visit_state' =
                       [visit_state EXCEPT ![i] =
                           IF opens_session(d)
                           THEN [st |-> "session",
                                 obligations |-> with_fcx_obligations(d, features)]
                           ELSE [st |-> "done", obligations |-> <<>>]]
                /\ sink' = Append(sink, SinkEntry(i, {}, visit_diagnostics(d, features)))
    /\ UNCHANGED <<crate_decls, gat_vars, item_vars, oracle_vars>>

\* The rest of with_fcx for declaration i, and check_variances_for_type_defn.
Resolve(i) ==
    /\ ~Aborted
    /\ visit_state[i].st = "session"
    /\ LET d == crate_decls[i]
       IN  sink' = Append(sink, SinkEntry(i, resolve(d, fulfillment_cx(visit_state, i)),
                                          session_diagnostics(d, features)))
    /\ visit_state' = [visit_state EXCEPT ![i].st = "done"]
    /\ UNCHANGED <<crate_decls, gat_vars, item_vars, oracle_vars>>

\* par_visit_all_item_likes: the declarations are visited in any order, and
\* their checks may interleave.
NextDriver ==
    \/ \E i \in DOMAIN crate_decls : Visit(i)
    \/ \E i \in DOMAIN crate_decls : Resolve(i)

SpecDriver == InitDriver /\ [][NextDriver]_vars

\* Every worker that can take a step eventually does.
FairSpecDriver == SpecDriver /\ WF_vars(NextDriver)

----------------------------------------------------------------------------
(* Properties of the per-item checks *)

\* The callback of the session has run.
CallbackRan ==
    \/ ipc \in {"registered", "selected", "variances"}
    \/ ipc = "done" /\ opens_session(decl)

ObligationSet == {obligations[i] : i \in DOMAIN obligations}

IsFnLike(d) ==
    \/ d.kind \in {"Fn", "ForeignFn"}
    \/ d.kind = "AssocItem" /\ d.assoc_kind = "Fn"

\* The implied-bounds set check_fn_or_method is entered with.
EntryImpliedBounds(d) ==
    IF d.kind = "AssocItem" /\ d.container = "Impl"
    THEN impl_implied_bounds(d.impl) ELSE {}

NormalizedInputs(d) ==
    {normalize_associated_types_in(d.inputs[i]) : i \in DOMAIN d.inputs}

\* C6: for a function or method signature, the implied-bounds set that leaves
\* check_fn_or_method (and reaches region checking) is the set it had on
\* entry plus exactly the normalized parameter types; the return type is
\* never added.
C6_ImpliedBoundsAreInputs ==
    (CallbackRan /\ IsFnLike(decl)) =>
        /\ returned_wf_tys = EntryImpliedBounds(decl) \cup NormalizedInputs(decl)
        /\ ipc = "done" =>
               regionck_wf_tys = EntryImpliedBounds(decl) \cup NormalizedInputs(decl)

\* The set C7 describes for an impl.
ImplTypeArgs(d) ==
    IF d.of_trait
    THEN {normalize_associated_types_in(a.name) :
              a \in {d.trait_ref[i] : i \in {j \in DOMAIN d.trait_ref :
                                                 d.trait_ref[j].kind = "Type"}}}
    ELSE {normalize_associated_types_in(d.self_ty)}

\* C7: a trait impl's implied bounds are exactly the types among the generic
\* arguments of its normalized trait reference, an inherent impl's are
\* exactly its normalized self type; check_impl hands that set to region
\* checking; type definitions, traits, statics and consts hand on the empty
\* set.
C7_ImplImpliedBounds ==
    CallbackRan =>
        /\ decl.kind = "Impl" =>
               /\ returned_wf_tys = ImplTypeArgs(decl)
               /\ ipc = "done" => regionck_wf_tys = ImplTypeArgs(decl)
        /\ (\/ IsTypeDefn(decl)
            \/ decl.kind \in {"Trait", "TraitAlias", "Static", "ForeignStatic", "Const"}) =>
               /\ returned_wf_tys = {}
               /\ ipc = "done" => regionck_wf_tys = {}

\* A trait impl whose trait reference has two type arguments, a lifetime and
\* a const, and an associated type to normalize, has been region-checked.
C7_Witness ==
    /\ ipc = "done"
    /\ decl.kind = "Impl"
    /\ decl.of_trait
    /\ \E i \in DOMAIN decl.trait_ref : decl.trait_ref[i].kind # "Type"
    /\ regionck_wf_tys = {"i32", "String"}

\* The fields of variant vi that got a Sized obligation (each on the field's
\* own type).
SizedFields(vi) ==
    {o.loc[2] : o \in {x \in ObligationSet :
                          /\ x.cause = "FieldSized"
                          /\ x.pred = "Sized"
                          /\ x.loc[1] = vi
                          /\ x.tys = <<decl.variants[vi].fields[x.loc[2]]>>}}

FieldSizedCount(vi) ==
    Cardinality({i \in DOMAIN obligations :
                    obligations[i].cause = "FieldSized" /\ obligations[i].loc[1] = vi})

\* C8 as stated: in every variant of a struct, union or enum every field but
\* the last gets a Sized obligation, and the last gets one exactly when the
\* container is packed and the last field's type needs drop.
C8_LastFieldExemptUnlessPackedDrop ==
    (CallbackRan /\ IsTypeDefn(decl)) =>
        \A vi \in DOMAIN decl.variants :
            LET fields == decl.variants[vi].fields
                n == Len(fields)
            IN  /\ SizedFields(vi) =
                       (1..(n - 1)) \cup
                       (IF n > 0 /\ decl.packed /\ needs_drop(fields[n])
                        THEN {n} ELSE {})
                /\ FieldSizedCount(vi) = Cardinality(SizedFields(vi))

\* C8, amended: every field but the last gets a Sized obligation; the last
\* field of a union or of an enum variant always gets one; the last field of
\* a struct gets one exactly when the struct is packed and the field's type
\* needs drop or still holds an inference variable.
C8_FieldSizedObligations ==
    (CallbackRan /\ IsTypeDefn(decl)) =>
        \A vi \in DOMAIN decl.variants :
            LET fields == decl.variants[vi].fields
                n == Len(fields)
            IN  /\ SizedFields(vi) =
                       (1..(n - 1)) \cup
                       (IF /\ n > 0
                           /\ \/ decl.kind # "Struct"
                              \/ /\ decl.packed
                                 /\ needs_infer(fields[n]) \/ needs_drop(fields[n])
                        THEN {n} ELSE {})
                /\ FieldSizedCount(vi) = Cardinality(SizedFields(vi))

\* A struct that is not packed and ends in `str`: the first field is
\* obligated, the last is not.
C8_Witness ==
    /\ CallbackRan
    /\ decl.kind = "Struct"
    /\ ~decl.packed
    /\ decl.variants[1].fields = <<"i32", "str">>
    /\ SizedFields(1) = {1}

TypedItem(d) == d.kind \in {"Static", "ForeignStatic", "Const"}

HasObligation(pred, cause, ty) ==
    \E o \in ObligationSet : o.pred = pred /\ o.cause = cause /\ o.tys = <<ty>>

\* C9: check_item_type registers a Sized obligation on the normalized type
\* of every const and static, except a foreign static whose lifetime-erased
\* struct tail is a foreign type; the WF obligation on the type is always
\* registered.
C9_SizedUnlessForeignTail ==
    (CallbackRan /\ TypedItem(decl)) =>
        LET item_ty == normalize_associated_types_in(decl.ty)
        IN  /\ HasObligation("WF", "WellFormed(Ty)", item_ty)
            /\ (\E o \in ObligationSet : o.pred = "Sized")
                   <=> ~(/\ decl.kind = "ForeignStatic"
                         /\ is_foreign_ty(struct_tail_erasing_lifetimes(item_ty)))
            /\ \A o \in ObligationSet :
                   o.pred = "Sized" => o.cause = "MiscObligation" /\ o.tys = <<item_ty>>

\* A foreign static whose type is a struct ending in a foreign type: WF is
\* registered, Sized is not.
C9_Witness ==
    /\ CallbackRan
    /\ decl.kind = "ForeignStatic"
    /\ decl.ty = "Wrap<ExternTy>"
    /\ HasObligation("WF", "WellFormed(Ty)", "Wrap<ExternTy>")
    /\ ~\E o \in ObligationSet : o.pred = "Sized"

\* C10: check_item_type registers a Sync obligation on the item's type if
\* and only if the item is a static that is immutable, not foreign and not
\* thread-local.
C10_SyncIffSharedStatic ==
    (CallbackRan /\ TypedItem(decl)) =>
        LET item_ty == normalize_associated_types_in(decl.ty)
        IN  /\ (\E o \in ObligationSet : o.pred = "Sync")
                   <=> (/\ decl.kind = "Static"
                        /\ decl.mutability = "Not"
                        /\ ~decl.thread_local)
            /\ \A o \in ObligationSet :
                   o.pred = "Sync" => o.cause = "SharedStatic" /\ o.tys = <<item_ty>>

\* An immutable, non-thread-local static of a type that is not Sync: the
\* obligation is registered and resolution reports it.
C10_Witness ==
    /\ ipc = "done"
    /\ decl.kind = "Static"
    /\ decl.mutability = "Not"
    /\ ~decl.thread_local
    /\ decl.ty = "Cell<i32>"
    /\ \E o \in reported_errors : o.pred = "Sync" /\ o.tys = <<"Cell<i32>">>

\* The declarations whose callback calls check_where_clauses.
HasWhereClauses(d) ==
    \/ IsTypeDefn(d)
    \/ d.kind \in {"Fn", "ForeignFn", "Impl", "Trait", "TraitAlias"}
    \/ d.kind = "AssocItem" /\ d.assoc_kind = "Fn"

\* The non-lifetime parameters a predicate mentions.
Mentioned(hdr, pred) ==
    {q \in DOMAIN hdr.params :
        /\ hdr.params[q].kind # "Lifetime"
        /\ \E i \in DOMAIN pred.tys : pred.tys[i] = hdr.params[q].name}

\* A parameter with a default of the declaration's own that mentions no
\* parameter.
HasOwnConcreteDefault(hdr, q) ==
    /\ hdr.params[q].has_default
    /\ ~hdr.params[q].inherited
    /\ \A r \in DOMAIN hdr.params : hdr.params[r].name # hdr.params[q].default

\* The predicate with its one parameter q replaced by q's default.
WithDefault(hdr, pred, q) ==
    [pred EXCEPT !.tys = [i \in DOMAIN pred.tys |->
                             IF pred.tys[i] = hdr.params[q].name
                             THEN hdr.params[q].default ELSE pred.tys[i]]]

\* The condition C15 gives for a declared predicate to produce an obligation.
ProducesDefaultObligation(hdr, n) ==
    LET pred == hdr.predicates[n]
    IN  /\ Cardinality(Mentioned(hdr, pred)) = 1
        /\ ~pred.has_region
        /\ \E q \in Mentioned(hdr, pred) :
               /\ HasOwnConcreteDefault(hdr, q)
               /\ \A i \in DOMAIN hdr.predicates :
                      hdr.predicates[i] # WithDefault(hdr, pred, q)

ItemObligations ==
    SelectSeq(obligations, LAMBDA o : o.cause = "ItemObligation")

\* C15: a declared predicate produces a defaulted-substitution obligation
\* if and only if it mentions exactly one generic parameter and no region,
\* its form after substituting the declaration's own non-dependent defaults
\* has no type or const parameter, and that form is not among the declared
\* predicates; the obligations are those substituted forms, one each.
C15_DefaultedSubstitutionObligations ==
    (CallbackRan /\ HasWhereClauses(decl)) =>
        LET hdr == decl.hdr
            yes == {n \in DOMAIN hdr.predicates : ProducesDefaultObligation(hdr, n)}
        IN  /\ Len(ItemObligations) = Cardinality(yes)
            /\ \A n \in yes :
                   \E q \in Mentioned(hdr, hdr.predicates[n]) :
                       \E i \in DOMAIN ItemObligations :
                           /\ ItemObligations[i].pred = hdr.predicates[n].trait
                           /\ ItemObligations[i].tys =
                                  WithDefault(hdr, hdr.predicates[n], q).tys

\* `struct Foo<T: Copy = String>`: the predicate `T: Copy` became the
\* obligation `String: Copy`, which resolution reports.
C15_Witness ==
    /\ ipc = "done"
    /\ decl.kind = "Struct"
    /\ decl.hdr = HeaderPool[2]
    /\ Len(ItemObligations) = 1
    /\ ItemObligations[1].tys = <<"String">>
    /\ ItemObligations[1] \in reported_errors

----------------------------------------------------------------------------
(* The merge step of check_gat_where_clauses *)

\* The accumulated set of the GAT with this def_id in a given map.
AccumulatedIn(map, def_id) == IF def_id \in DOMAIN map THEN map[def_id] ELSE {}

\* C20: when a GAT is processed in a pass and the pass has a required set
\* for it, its accumulated set afterwards is its previous contents united
\* with the whole required set, and the flag that makes the outer loop run
\* another pass is raised exactly when an accumulated set changed.
C20_MergeIsUnion ==
    [][(/\ pc = "loop"
        /\ gat_idx \in DOMAIN associated_items
        /\ IsGat(associated_items[gat_idx]))
       => LET gat == associated_items[gat_idx]
              new == new_required_bounds(gat, associated_items,
                                         required_bounds_by_item,
                                         Len(associated_items))
              before == AccumulatedIn(required_bounds_by_item, gat.def_id)
              after == AccumulatedIn(required_bounds_by_item', gat.def_id)
          IN  /\ new.some => after = before \cup new.bounds
              /\ ~new.some => after = before
              /\ should_continue' = (should_continue \/ after # before)]_vars

----------------------------------------------------------------------------
(* Properties of check_param_wf *)

ParamChecked == ipc = "done" /\ decl.kind = "GenericParam"

IsPointerTy(ty) == ty \in {"fn()", "*const u8"}

\* C16 as stated: with adt_const_params off a const parameter gets no
\* diagnostic if and only if its type is bool, char or an integer type; in
\* both modes a raw-pointer or function-pointer type gets one; lifetime and
\* type parameters never get one.
C16_ConstParamTypes ==
    ParamChecked =>
        /\ (decl.param_kind = "Const" /\ ~features.adt_const_params) =>
               (sess_diags = <<>> <=> decl.ty \in {"bool", "char", "i32", "u8"})
        /\ (decl.param_kind = "Const" /\ IsPointerTy(decl.ty)) => sess_diags # <<>>
        /\ decl.param_kind \in {"Lifetime", "Type"} => sess_diags = <<>>

\* C16, amended: with adt_const_params off a const parameter gets no
\* diagnostic if and only if its type is bool, char, an integer type or the
\* error type; the rest as stated.
C16_ConstParamTypesOrError ==
    ParamChecked =>
        /\ (decl.param_kind = "Const" /\ ~features.adt_const_params) =>
               (sess_diags = <<>>
                    <=> decl.ty \in {"bool", "char", "i32", "u8", "{error}"})
        /\ (decl.param_kind = "Const" /\ IsPointerTy(decl.ty)) => sess_diags # <<>>
        /\ decl.param_kind \in {"Lifetime", "Type"} => sess_diags = <<>>

\* A const parameter of a struct type was rejected with the feature off, and
\* the check is over.
C16_Witness ==
    /\ ParamChecked
    /\ decl.param_kind = "Const"
    /\ decl.ty = "Unit"
    /\ ~features.adt_const_params
    /\ sess_diags = <<"forbidden as the type of a const generic parameter">>

----------------------------------------------------------------------------
(* Properties of the receiver checks *)

IsMethod(d) == d.kind = "AssocItem" /\ d.assoc_kind = "Fn" /\ d.receiver.has_self

\* The callback has checked a method with a self parameter.
MethodChecked == CallbackRan /\ IsMethod(decl)

\* The positions of the chain a mode looks at: all of them in relaxed mode,
\* those before the first raw pointer dereference in strict mode.
Visible(rcv, relaxed) ==
    {k \in DOMAIN rcv.chain : relaxed \/ \A j \in 1..k : ~rcv.chain[j].raw}

\* The visible positions whose type equals the implementor type.
Reach(rcv, relaxed) == {k \in Visible(rcv, relaxed) : rcv.chain[k].eq_self}

\* The visible dereference steps before the first one that equals the
\* implementor type (all of them when none does).
StepsBeforeSelf(rcv, relaxed) ==
    {k \in Visible(rcv, relaxed) : k >= 2 /\ \A j \in Reach(rcv, relaxed) : k < j}

AllReceiver(rcv, ks) == \A k \in ks : rcv.chain[k].receiver_impl

\* C12 as stated: a receiver equal to the implementor type is valid in both
\* modes; in strict mode another receiver is valid only if the receiver type
\* and every dereference step before the one equal to the implementor type
\* satisfy Receiver; in relaxed mode reaching the implementor type through
\* the chain, raw pointers included, suffices.
C12_StrictNeedsReceiverBound ==
    MethodChecked =>
        LET rcv == decl.receiver
            strict == receiver_is_valid(rcv, FALSE).valid
            relaxed == receiver_is_valid(rcv, TRUE).valid
        IN  /\ rcv.chain[1].eq_self => strict /\ relaxed
            /\ (~rcv.chain[1].eq_self /\ strict) =>
                   AllReceiver(rcv, {1} \cup StepsBeforeSelf(rcv, FALSE))
            /\ Reach(rcv, TRUE) # {} => relaxed

\* C12, amended: a receiver equal to the implementor type is valid in both
\* modes.  Any other receiver is valid in strict mode exactly when either
\* its chain (up to the first raw pointer) reaches the implementor type and
\* the receiver type and every step before that one satisfy Receiver, or the
\* chain does not reach it, every dereference step satisfies Receiver and
\* the receiver type carries an error marker.  It is valid in relaxed mode
\* exactly when the chain, raw pointers included, reaches the implementor
\* type or the receiver type carries an error marker.
C12_ReceiverValidity ==
    MethodChecked =>
        LET rcv == decl.receiver
            strict == receiver_is_valid(rcv, FALSE).valid
            relaxed == receiver_is_valid(rcv, TRUE).valid
        IN  /\ rcv.chain[1].eq_self => strict /\ relaxed
            /\ ~rcv.chain[1].eq_self =>
                   /\ strict <=>
                          \/ /\ Reach(rcv, FALSE) # {}
                             /\ AllReceiver(rcv, {1} \cup StepsBeforeSelf(rcv, FALSE))
                          \/ /\ Reach(rcv, FALSE) = {}
                             /\ AllReceiver(rcv, StepsBeforeSelf(rcv, FALSE))
                             /\ rcv.references_error
                   /\ relaxed <=> (Reach(rcv, TRUE) # {} \/ rcv.references_error)

\* `self: Rc<Box<Self>>`: two dereferences reach the implementor type, the
\* receiver type and the intermediate step implement Receiver, and the
\* receiver is valid in strict mode.
C12_Witness ==
    /\ MethodChecked
    /\ Len(decl.receiver.chain) = 3
    /\ ~decl.receiver.chain[1].eq_self /\ decl.receiver.chain[1].receiver_impl
    /\ ~decl.receiver.chain[2].eq_self /\ decl.receiver.chain[2].receiver_impl
    /\ decl.receiver.chain[3].eq_self /\ ~decl.receiver.chain[3].raw
    /\ ~decl.receiver.chain[2].raw
    /\ ~decl.receiver.references_error
    /\ ~features.arbitrary_self_types
    /\ receiver_is_valid(decl.receiver, FALSE).valid
    /\ sess_diags = <<>>

\* C13: a receiver whose dereference chain never reaches a type equal to
\* the implementor type is valid if its type carries an error marker and
\* invalid otherwise, in strict mode and in relaxed mode.
C13_UnreachedValidIffError ==
    MethodChecked =>
        \A mode \in BOOLEAN :
            Reach(decl.receiver, mode) = {} =>
                receiver_is_valid(decl.receiver, mode).valid
                    = decl.receiver.references_error

ReceiverDiags ==
    SelectSeq(sess_diags,
              LAMBDA d : d \in {"E0307", "feature: arbitrary_self_types"})

\* C14: no receiver diagnostic for a method without a self parameter or
\* whose receiver is valid in the active mode; with the feature off and
\* strict validation failing, the feature suggestion if relaxed validation
\* succeeds and E0307 otherwise; with the feature on, E0307 exactly when
\* relaxed validation fails; never both.
C14_ReceiverDiagnostic ==
    (CallbackRan /\ decl.kind = "AssocItem" /\ decl.assoc_kind = "Fn") =>
        IF ~decl.receiver.has_self THEN ReceiverDiags = <<>>
        ELSE LET rcv == decl.receiver
                 strict == receiver_is_valid(rcv, FALSE).valid
                 relaxed == receiver_is_valid(rcv, TRUE).valid
             IN  IF features.arbitrary_self_types
                 THEN ReceiverDiags = IF relaxed THEN <<>> ELSE <<"E0307">>
                 ELSE ReceiverDiags =
                          IF strict THEN <<>>
                          ELSE IF relaxed THEN <<"feature: arbitrary_self_types">>
                          ELSE <<"E0307">>

\* `self: *const Self` with the feature off: strict validation fails,
\* relaxed validation succeeds, and the feature suggestion is the one
\* diagnostic.
C14_Witness ==
    /\ MethodChecked
    /\ ~features.arbitrary_self_types
    /\ Len(decl.receiver.chain) = 2
    /\ decl.receiver.chain[2].raw /\ decl.receiver.chain[2].eq_self
    /\ ~decl.receiver.chain[1].eq_self
    /\ ~receiver_is_valid(decl.receiver, FALSE).valid
    /\ receiver_is_valid(decl.receiver, TRUE).valid
    /\ sess_diags = <<"feature: arbitrary_self_types">>

----------------------------------------------------------------------------
(* Properties of check_variances_for_type_defn and of acceptance *)

TypeDefnChecked == ipc = "done" /\ IsTypeDefn(decl)

E0392Params ==
    {sess_diags[i].param : i \in {j \in DOMAIN sess_diags : sess_diags[j].code = "E0392"}}

NamesOf(hdr, qs) == {hdr.params[q].name : q \in qs}

\* The constrained set of C17: the parameters of non-bivariant variance
\* united with those the declaration's predicates constrain from them.
ConstrainedSet(d) ==
    LET used == {q \in DOMAIN d.hdr.params : variances_of(d)[q] # "Bivariant"}
    IN  used \cup
        {q \in DOMAIN d.hdr.params :
            \E i \in DOMAIN d.hdr.predicates :
                /\ d.hdr.predicates[i].trait = "ProjectionEq"
                /\ d.hdr.predicates[i].tys[2] = d.hdr.params[q].name
                /\ d.hdr.predicates[i].tys[1] \in NamesOf(d.hdr, used)}

\* `struct PhantomUnused<T> { x: i32 }`
IsPhantomUnused(d) ==
    /\ d.kind = "Struct"
    /\ d.hdr = HeaderPool[14]
    /\ d.variants = <<AdtVariant(<<"i32">>, FALSE)>>

\* C17 as stated: for every struct, enum or union the parameters reported
\* as unused (E0392) are exactly the declared parameters outside the
\* constrained set, one report each.
C17_UnusedParametersReported ==
    TypeDefnChecked =>
        /\ E0392Params = NamesOf(decl.hdr, DOMAIN decl.hdr.params \ ConstrainedSet(decl))
        /\ Len(sess_diags) = Cardinality(E0392Params)

\* C17, amended: when the type has a field of the error type nothing is
\* reported; otherwise the parameters reported as unused are exactly the
\* declared parameters outside the constrained set whose name is not the
\* error name, one report each; PhantomUnused gets exactly one, for T.
C17_UnusedParametersReportedUnlessError ==
    TypeDefnChecked =>
        /\ has_error_field(decl) => sess_diags = <<>>
        /\ ~has_error_field(decl) =>
               /\ E0392Params =
                      NamesOf(decl.hdr, DOMAIN decl.hdr.params \ ConstrainedSet(decl))
                          \ {"{error}"}
               /\ Len(sess_diags) = Cardinality(E0392Params)
        /\ IsPhantomUnused(decl) =>
               sess_diags = <<[code |-> "E0392", param |-> "T", const_help |-> TRUE]>>

\* PhantomUnused has been checked and its one report is for T.
C17_Witness ==
    /\ TypeDefnChecked
    /\ IsPhantomUnused(decl)
    /\ E0392Params = {"T"}
    /\ Len(sess_diags) = 1

\* The session's verdict on the declaration.
Accepted == reported_errors = {}

\* `struct Ref<'a, T> { x: &'a T }`
IsRef(d) ==
    /\ d.kind = "Struct"
    /\ d.hdr = HeaderPool[8]
    /\ d.variants = <<AdtVariant(<<"&'a T">>, FALSE)>>

\* `struct RefOk<'a, T: 'a> { x: &'a T }`
IsRefOk(d) ==
    /\ d.kind = "Struct"
    /\ d.hdr = HeaderPool[12]
    /\ d.variants = <<AdtVariant(<<"&'a T">>, FALSE)>>

\* C19: an accepted type definition has every field's well-formedness
\* requirement proven from the declared predicates alone: a field `&'a T`
\* needs a declared `T: 'a`.  Ref is rejected with an error attributed to
\* its field x, RefOk is accepted.
C19_AcceptedFieldsProvenFromDeclared ==
    TypeDefnChecked =>
        /\ Accepted =>
               \A vi \in DOMAIN decl.variants :
                   \A i \in DOMAIN decl.variants[vi].fields :
                       requires_outlives(decl.variants[vi].fields[i]) =>
                           \E k \in DOMAIN decl.hdr.predicates :
                               /\ decl.hdr.predicates[k].trait = "Outlives"
                               /\ decl.hdr.predicates[k].tys = <<"T">>
        /\ IsRef(decl) =>
               \E e \in reported_errors :
                   /\ e.pred = "WF"
                   /\ e.tys = <<"&'a T">>
                   /\ e.cause = "WellFormed(Ty)"
                   /\ e.loc = <<1, 1>>
        /\ IsRefOk(decl) => Accepted

\* Ref has been checked and rejected: its only error is the one on field x.
C19_Witness ==
    /\ TypeDefnChecked
    /\ IsRef(decl)
    /\ Cardinality(reported_errors) = 1
    /\ regionck_wf_tys = {}

----------------------------------------------------------------------------
(* Properties of the pass over a crate *)

Visited(i) == visit_state[i].st = "done"

\* What the sink holds for declaration i.
ErrorsOf(i) == UNION {sink[k].errors : k \in {j \in DOMAIN sink : sink[j].item = i}}

RECURSIVE emitted_in(_, _)
emitted_in(s, i) ==
    IF s = <<>> THEN <<>>
    ELSE (IF Head(s).item = i THEN Head(s).emitted ELSE <<>>) \o emitted_in(Tail(s), i)

EmittedOf(i) == emitted_in(sink, i)

\* The terminal state of a declaration's check.
Outcome(i) ==
    IF visit_state[i].st = "panicked" THEN "Panicked"
    ELSE IF ~Visited(i) THEN "Running"
    ELSE IF ErrorsOf(i) = {} /\ EmittedOf(i) = <<>> THEN "Accepted"
    ELSE "DiagnosedAndAccepted"

PassComplete ==
    \A i \in DOMAIN crate_decls : Outcome(i) \in {"Accepted", "DiagnosedAndAccepted"}

C18_ChecksAreIndependent ==
    \A i \in DOMAIN crate_decls :
        /\ visit_state[i].st = "pending" =>
               ErrorsOf(i) = {} /\ EmittedOf(i) = <<>>
        /\ Visited(i) =>
               /\ ErrorsOf(i) = check_alone(crate_decls[i], features).errors
               /\ EmittedOf(i) = check_alone(crate_decls[i], features).emitted

\* Two sessions were open at once, the second declaration finished first,
\* and the two declarations end with different errors.
C18_Witness ==
    /\ Len(crate_decls) = 2
    /\ Visited(1) /\ Visited(2)
    /\ Len(sink) = 4
    /\ sink[1].item = 1 /\ sink[2].item = 2 /\ sink[3].item = 2 /\ sink[4].item = 1
    /\ ErrorsOf(1) # {}
    /\ ErrorsOf(2) # ErrorsOf(1)

----------------------------------------------------------------------------
(* One turn of the outer loop on a GAT *)

\* A step of the outer loop that handles the GAT at gat_idx.
GatTurn ==
    /\ pc = "loop"
    /\ gat_idx \in DOMAIN associated_items
    /\ IsGat(associated_items[gat_idx])
    /\ gat_idx' = gat_idx + 1

\* A projection onto `gat` occurs in what is visited of `item`.
Occurs(item, gat) == \E p \in item.to_check : p.item_def_id = gat.def_id

\* The items consulted for `gat`: methods and associated types other than
\* `gat` in which it occurs.
Consulted(gat) ==
    {associated_items[i] : i \in {j \in DOMAIN associated_items :
        /\ associated_items[j].def_id # gat.def_id
        /\ associated_items[j].kind # "Const"
        /\ Occurs(associated_items[j], gat)}}

\* The clauses every consulted item derives, under the map as it is.
CommonFacts(gat) ==
    {c \in UNION {FactsOf(item, gat) : item \in Consulted(gat)} :
        \A item \in Consulted(gat) : c \in FactsOf(item, gat)}

\* C21: in a turn of the outer loop on a GAT G, the set computed for G is
\* the intersection of the fact sets of the items other than G in which G
\* occurs, associated consts excluded: only clauses of that intersection
\* are added to G's entry, the pass is flagged to continue exactly when the
\* intersection holds a clause the entry lacks, and when no item consults G
\* the map is left as it is, without an entry made for G.
C21_RequiredSetIsIntersection ==
    [][GatTurn =>
        LET gat == associated_items[gat_idx]
        IN  IF Consulted(gat) = {}
            THEN UNCHANGED <<required_bounds_by_item, should_continue>>
            ELSE /\ gat.def_id \in DOMAIN required_bounds_by_item'
                 /\ required_bounds_by_item'[gat.def_id] \ Accumulated(gat)
                        \subseteq CommonFacts(gat)
                 /\ Accumulated(gat) \subseteq required_bounds_by_item'[gat.def_id]
                 /\ should_continue' =
                        (should_continue \/ ~(CommonFacts(gat) \subseteq Accumulated(gat)))
                 /\ \A id \in DOMAIN required_bounds_by_item :
                        id # gat.def_id =>
                            required_bounds_by_item'[id] = required_bounds_by_item[id]]_vars

\* A GAT has been handled that two items consult with different fact sets:
\* its entry exists and holds none of the clauses only one of them derives.
C21_Witness ==
    /\ pc = "loop"
    /\ \E i \in 1..(gat_idx - 1) :
          /\ IsGat(associated_items[i])
          /\ associated_items[i].def_id \in DOMAIN required_bounds_by_item
          /\ \E a, b \in Consulted(associated_items[i]) :
                FactsOf(a, associated_items[i]) # FactsOf(b, associated_items[i])

----------------------------------------------------------------------------
(* The facts gather_gat_bounds records *)

\* What gather_gat_bounds returns for `item` about `gat`, under the map as
\* it is.
Gathered(item, gat) == item_required_bounds(item, gat, required_bounds_by_item)

\* The region and type arguments the collector finds in `item` for `gat`.
ArgsOf(item, gat) == GATSubstCollector_visit(gat.def_id, item.to_check)

\* Clause c comes from arguments none of which is 'static, and, for a
\* region clause, from two region arguments that are different regions.
FromLiveArgs(item, gat, c) ==
    LET args == ArgsOf(item, gat)
    IN  IF c.kind = "TypeOutlives"
        THEN /\ \E t \in args.types : t[2] = c.a
             /\ \E r \in args.regions : r[2] = c.b /\ r[1] # ReStatic
        ELSE \E ra, rb \in args.regions :
                /\ ra[2] = c.a /\ rb[2] = c.b
                /\ ra[1] # ReStatic /\ rb[1] # ReStatic
                /\ ra[1] # rb[1]

AllFactsFromLiveArgs ==
    \A gat \in Gats : \A i \in DOMAIN associated_items :
        \A c \in Gathered(associated_items[i], gat).bounds :
            FromLiveArgs(associated_items[i], gat, c)

\* C22 as stated: no fact gather_gat_bounds records comes from a 'static
\* region argument, and the two sides of every recorded RegionOutlives fact
\* are distinct parameters of the GAT.
C22_NoStaticNoSelfPair ==
    /\ AllFactsFromLiveArgs
    /\ \A gat \in Gats : \A i \in DOMAIN associated_items :
           \A c \in Gathered(associated_items[i], gat).bounds :
               c.kind = "RegionOutlives" => c.a # c.b

\* C22, amended: no fact gather_gat_bounds records comes from a 'static
\* region argument, and every recorded RegionOutlives fact comes from two
\* region arguments that are different regions; the accumulated sets hold
\* such facts only.  (The positions of the two arguments may coincide.)
C22_NoStaticNoSelfPairOfArguments ==
    /\ AllFactsFromLiveArgs
    /\ \A gat \in Gats : \A c \in Accumulated(gat) :
           \E i \in DOMAIN associated_items : FromLiveArgs(associated_items[i], gat, c)

\* A region fact is accumulated for a GAT whose two sides are one parameter:
\* two projections onto the GAT pass different regions at one position.
C22_Witness ==
    \E gat \in Gats : \E c \in Accumulated(gat) :
        /\ c.kind = "RegionOutlives"
        /\ c.a = c.b
        /\ \E i \in DOMAIN associated_items : FromLiveArgs(associated_items[i], gat, c)

----------------------------------------------------------------------------
(* The number of passes of the fixpoint loop *)

\* The outlives clauses that can be stated over a GAT's parameters: a type
\* parameter or a lifetime parameter on the left, a lifetime parameter on
\* the right.
CandidateFacts(gat) ==
    LET lifetimes == {i \in DOMAIN gat.params : gat.params[i].kind = "Lifetime"}
        types == {i \in DOMAIN gat.params : gat.params[i].kind = "Type"}
    IN  {TypeOutlives(t, r) : t \in types, r \in lifetimes}
            \cup {RegionOutlives(a, b) : a \in lifetimes, b \in lifetimes}

\* K: the size of the largest universe of candidate facts of a GAT.
MaxCandidateFacts ==
    IF Gats = {} THEN 0
    ELSE CHOOSE k \in {Cardinality(CandidateFacts(g)) : g \in Gats} :
             \A g \in Gats : Cardinality(CandidateFacts(g)) <= k

RECURSIVE TotalSize(_)
TotalSize(gats) ==
    IF gats = {} THEN 0
    ELSE LET g == CHOOSE y \in gats : TRUE
         IN  Cardinality(Accumulated(g)) + TotalSize(gats \ {g})

TotalAccumulated == TotalSize(Gats)

\* C23: with N GATs and at most K candidate facts per GAT the loop makes at
\* most N*K + 1 passes: every accumulated fact is a candidate fact of its
\* GAT, and each pass before the current one added a fact.
C23_PassesBounded ==
    /\ \A gat \in Gats : Accumulated(gat) \subseteq CandidateFacts(gat)
    /\ pass <= TotalAccumulated + 1
    /\ pass <= Cardinality(Gats) * MaxCandidateFacts + 1
    /\ pass < MaxPass

\* The loop has ended after three passes, each but the last adding one fact.
C23_Witness ==
    /\ pc = "report"
    /\ pass >= 3
    /\ pass = TotalAccumulated + 1

----------------------------------------------------------------------------
(* The order of the steps of a session *)

\* Start, SessionOpen (enter, callback), ObligationsRegistered, Resolved
\* (selected, variances), then the end of the check.
IpcRank(p) ==
    CASE p = "start" -> 0
      [] p = "enter" -> 1
      [] p = "callback" -> 2
      [] p = "registered" -> 3
      [] p = "selected" -> 4
      [] p = "variances" -> 5
      [] p = "done" -> 6

\* The session is past select_all_obligations_or_error.
Resolved == ipc \in {"selected", "variances"} \/ (ipc = "done" /\ opens_session(decl))

\* C24: a session goes forward only, Start -> SessionOpen ->
\* ObligationsRegistered -> Resolved.  When the callback is entered the
\* session holds the false-global-bounds obligations if trivial_bounds is
\* off and nothing otherwise; the callback's obligations follow them and
\* are all registered before the final resolution; nothing is registered
\* from that resolution on; and the region check runs after it, with the
\* implied-bounds set the callback returned.
C24_SessionOrder ==
    /\ [](ipc = "callback" =>
             obligations = IF features.trivial_bounds THEN <<>>
                           ELSE false_global_obligations(decl.hdr))
    /\ [](CallbackRan => obligations = with_fcx_obligations(decl, features))
    /\ [](Resolved => failing(obligations) \subseteq reported_errors)
    /\ [](ipc \in {"variances", "done"} /\ opens_session(decl) =>
             /\ regionck_wf_tys = returned_wf_tys
             /\ returned_wf_tys = callback_of(decl).wf_tys)
    /\ [][/\ IpcRank(ipc') > IpcRank(ipc)
          /\ ipc \in {"registered", "selected", "variances"} =>
                 obligations' = obligations
          /\ ipc # "selected" => regionck_wf_tys' = regionck_wf_tys
          /\ ipc = "start" /\ opens_session(decl) => ipc' = "enter"
          /\ ipc = "enter" => ipc' = "callback"
          /\ ipc = "callback" => ipc' = "registered"
          /\ ipc = "registered" => ipc' = "selected"]_vars

\* A session has ended that registered false-global-bounds obligations and
\* obligations of the callback, reported a failed one, and ran the region
\* check with a non-empty implied-bounds set.
C24_Witness ==
    /\ ipc = "done"
    /\ opens_session(decl)
    /\ ~features.trivial_bounds
    /\ false_global_obligations(decl.hdr) # <<>>
    /\ callback_of(decl).obligations # <<>>
    /\ failing(false_global_obligations(decl.hdr)) # {}
    /\ failing(false_global_obligations(decl.hdr)) \subseteq reported_errors
    /\ regionck_wf_tys # {}

----------------------------------------------------------------------------
(* Properties of the outlives oracle *)

\* What a call returns when it is the only call ever made.
AnswerAlone(call) ==
    resolve_regions_with_wf_tys(call.param_env, call.wf_tys, call.constraint)

\* C25: a call of the oracle enters a new inference context, seeds the
\* environment from the parameter environment and the implied-bounds types,
\* adds the one candidate relation after that, and returns true exactly
\* when resolution reports no error; under every interleaving with other
\* calls its result is the one it gives alone, a function of its arguments.
C25_OracleCallsIndependent ==
    \A i \in DOMAIN oracle_calls :
        LET st == oracle_state[i]
            call == oracle_calls[i]
        IN  /\ st.pc \in {"called", "entered", "environment"} => st.infcx = {}
            /\ st.pc \in {"environment", "constrained"} =>
                   st.env = outlives_environment(call.param_env, call.wf_tys)
            /\ st.pc = "constrained" => st.infcx = {call.constraint}
            /\ st.pc = "returned" =>
                   /\ st.result = AnswerAlone(call)
                   /\ st.result = (resolve_regions(st.env, {call.constraint}) = {})

\* Two calls with the same environment were under way together; the first
\* to end failed, the other succeeded.
C25_Witness ==
    /\ Len(oracle_calls) = 2
    /\ oracle_calls[1].param_env = oracle_calls[2].param_env
    /\ oracle_calls[1].wf_tys = oracle_calls[2].wf_tys
    /\ oracle_state[1].pc = "returned" /\ ~oracle_state[1].result
    /\ oracle_state[2].pc = "returned" /\ oracle_state[2].result

----------------------------------------------------------------------------
(* Dispatch of impls *)

\* How often diagnostic x has been emitted.
Emitted(x) == Cardinality({i \in DOMAIN sess_diags : sess_diags[i] = x})

ImplDispatched == decl.kind = "Impl" /\ ipc # "start"

\* C26: once check_item_well_formed has dispatched an impl, a `default`
\* impl of an auto trait has the diagnostic "impls of auto traits cannot be
\* default" and no other impl has it; a negative impl marked `default` has
\* exactly one E0750 and no other impl has one; a positive impl is in a
\* session and, once check_impl has run, holds its WF obligations; a
\* negative or reservation impl is done and has registered no obligation.
C26_ImplDispatch ==
    /\ decl.kind = "Impl" => (ipc = "start" => obligations = <<>> /\ sess_diags = <<>>)
    /\ ImplDispatched =>
        /\ Emitted("impls of auto traits cannot be default") =
               IF decl.defaultness = "Default" /\ decl.is_auto /\ decl.of_trait
               THEN 1 ELSE 0
        /\ Emitted("E0750") =
               IF decl.polarity = "Negative" /\ decl.defaultness = "Default"
               THEN 1 ELSE 0
        /\ Len(sess_diags) = Emitted("impls of auto traits cannot be default")
                                 + Emitted("E0750")
        /\ IF decl.polarity = "Positive"
           THEN CallbackRan =>
                    /\ check_impl(decl).obligations # <<>>
                    /\ \A i \in DOMAIN check_impl(decl).obligations :
                           check_impl(decl).obligations[i] \in ObligationSet
           ELSE /\ ipc = "done"
                /\ obligations = <<>>
                /\ reported_errors = {}

\* A negative `default` impl of an auto trait has been dispatched: both
\* diagnostics, no obligation.
C26_Witness ==
    /\ ImplDispatched
    /\ decl.polarity = "Negative"
    /\ decl.defaultness = "Default"
    /\ decl.is_auto /\ decl.of_trait
    /\ Emitted("E0750") = 1
    /\ Emitted("impls of auto traits cannot be default") = 1
    /\ obligations = <<>>

----------------------------------------------------------------------------
(* The fixpoint and the order of the items *)

\* The GATs of the trait that some item consults, as a set of def_ids.
ConsultedGats == {g.def_id : g \in {h \in Gats : Consulted(h) # {}}}

GatOf(def_id) == CHOOSE g \in Gats : g.def_id = def_id

\* The clauses every item consulted for `gat` derives under `map`.
CommonFactsUnder(gat, map) ==
    {c \in UNION {item_required_bounds(item, gat, map).bounds : item \in Consulted(gat)} :
        \A item \in Consulted(gat) : c \in item_required_bounds(item, gat, map).bounds}

\* The least map closed under "every consulted item derives it", reached by
\* updating all GATs at once from the empty sets.  It is defined from the
\* set of the trait's items and does not see their order.
RECURSIVE LeastRequired(_, _)
LeastRequired(map, fuel) ==
    LET next == [id \in ConsultedGats |->
                    map[id] \cup CommonFactsUnder(GatOf(id), map)]
    IN  IF next = map \/ fuel = 0 THEN map ELSE LeastRequired(next, fuel - 1)

OrderFreeResult ==
    LeastRequired([id \in ConsultedGats |-> {}],
                  Cardinality(UNION {CandidateFacts(g) : g \in Gats}) * Cardinality(Gats))

\* C27: when the loop has ended, the requirement map is the one determined
\* by the set of the trait's items alone: every ordering of the item list
\* ends with the same accumulated set for every GAT.
C27_FixpointIndependentOfOrder ==
    pc \in {"report", "done"} =>
        /\ DOMAIN required_bounds_by_item = ConsultedGats
        /\ \A id \in ConsultedGats :
               required_bounds_by_item[id] = OrderFreeResult[id]

\* The loop has ended after a third pass, with bounds accumulated for two
\* GATs of which the one that depends on the other comes first in the list.
C27_Witness ==
    /\ pc = "report"
    /\ pass >= 3
    /\ \E i, j \in DOMAIN associated_items :
          /\ i < j
          /\ IsGat(associated_items[i]) /\ IsGat(associated_items[j])
          /\ Accumulated(associated_items[i]) # {}
          /\ Accumulated(associated_items[j]) # {}
          /\ associated_items[j] \in Consulted(associated_items[i])

----------------------------------------------------------------------------
(* Items that name a GAT and derive nothing *)

\* `item` names `gat` and derives no clause about it, under the map as it is.
DerivesNothing(item, gat) ==
    /\ item \in Consulted(gat)
    /\ Gathered(item, gat).bounds = {}

\* C28: gather_gat_bounds answers Some for an item in which a projection
\* onto the GAT occurs, with the empty set when no relation is provable,
\* and None only for an item in which none occurs.  So a turn of the outer
\* loop on a GAT that some consulted item derives nothing about adds
\* nothing: the GAT's entry exists afterwards and is empty, whatever the
\* other items derive.
C28_EmptyFactSetEmptiesRequiredSet ==
    /\ [](\A gat \in Gats : \A i \in DOMAIN associated_items :
             Gathered(associated_items[i], gat).some
                 <=> /\ associated_items[i].kind # "Const"
                     /\ Occurs(associated_items[i], gat))
    /\ [][GatTurn =>
            LET gat == associated_items[gat_idx]
            IN  (\E item \in Consulted(gat) : DerivesNothing(item, gat)) =>
                    /\ gat.def_id \in DOMAIN required_bounds_by_item'
                    /\ required_bounds_by_item'[gat.def_id] = {}
                    /\ should_continue' = should_continue]_vars

\* A GAT has been handled about which one item derives a clause and another
\* item, which names it too, derives nothing: its entry is there and empty.
C28_Witness ==
    /\ pc = "loop"
    /\ \E i \in 1..(gat_idx - 1) :
          LET gat == associated_items[i]
          IN  /\ IsGat(gat)
              /\ gat.def_id \in DOMAIN required_bounds_by_item
              /\ required_bounds_by_item[gat.def_id] = {}
              /\ \E item \in Consulted(gat) : DerivesNothing(item, gat)
              /\ \E item \in Consulted(gat) : Gathered(item, gat).bounds # {}

----------------------------------------------------------------------------
(* Strict and relaxed validation of a receiver *)

StrictValid(rcv) == receiver_is_valid(rcv, FALSE).valid
RelaxedValid(rcv) == receiver_is_valid(rcv, TRUE).valid

\* C29: a receiver that receiver_is_valid accepts in strict mode it accepts
\* in relaxed mode too, so a method whose receiver strict mode accepts gets
\* no E0307, with the feature on or off.
C29_StrictImpliesRelaxed ==
    IsMethod(decl) =>
        /\ StrictValid(decl.receiver) => RelaxedValid(decl.receiver)
        /\ MethodChecked /\ StrictValid(decl.receiver) =>
               \A i \in DOMAIN sess_diags : sess_diags[i] # "E0307"

\* A method has been checked with the feature on whose receiver is not the
\* implementor type and reaches it through dereferences in strict mode.
C29_Witness ==
    /\ MethodChecked
    /\ features.arbitrary_self_types
    /\ ~decl.receiver.chain[1].eq_self
    /\ Len(decl.receiver.chain) >= 3
    /\ ~decl.receiver.chain[2].eq_self
    /\ StrictValid(decl.receiver)
    /\ ~decl.receiver.references_error

----------------------------------------------------------------------------
(* The last field of a variant in check_type_defn *)

FieldSizedOf(vi) ==
    {o \in ObligationSet : o.cause = "FieldSized" /\ o.loc[1] = vi}

\* C30: check_type_defn neither unwraps the last field of a variant that
\* has none nor slices its fields out of range: on a variant without fields
\* needs_drop_copy is not called and no field is exempted.  A FieldSized
\* obligation carries `last` exactly when it is for the final field of its
\* variant, and the final field has one exactly when it is not exempted.
C30_LastFieldHandledSafely ==
    IsTypeDefn(decl) =>
        \A vi \in DOMAIN decl.variants :
            LET variant == decl.variants[vi]
                all_sized == all_sized_of(decl.kind)
                exempt == unsized_len(all_sized, decl.packed, variant)
            IN  /\ ~last_field_unwrap_panics(all_sized, decl.packed, variant)
                /\ ~field_slice_panics(all_sized, decl.packed, variant)
                /\ exempt <= Len(variant.fields)
                /\ variant.fields = <<>> =>
                       /\ ~needs_drop_copy_called(all_sized, variant)
                       /\ exempt = 0
                /\ CallbackRan =>
                       /\ \A o \in FieldSizedOf(vi) :
                              /\ o.loc[2] \in DOMAIN variant.fields
                              /\ o.last <=> o.loc[2] = Len(variant.fields)
                       /\ (\E o \in FieldSizedOf(vi) : o.last)
                              <=> (variant.fields # <<>> /\ exempt = 0)

\* A packed struct without fields has been checked and no field of it
\* was required to be Sized.
C30_Witness ==
    /\ decl.kind = "Struct"
    /\ decl.packed
    /\ decl.variants[1].fields = <<>>
    /\ CallbackRan
    /\ FieldSizedOf(1) = {}

====
